---- MODULE Spec2Model ----
(***************************************************************************)
(* Model of the deterministic amount-extraction engine of the voucher      *)
(* scanner: src/src/utils/numberParser.ts (normalizeDigits, parseAmount,   *)
(* detectCurrency) and src/src/utils/amountExtraction.ts (extractAmount).  *)
(*                                                                         *)
(* Text is modelled character by character.  A string is a sequence of     *)
(* characters; an ASCII character is written as itself ("t", "5", "|"),    *)
(* a character outside ASCII by its name:                                  *)
(*   Arabic letters   "alef" U+0627, "alefHamzaAbove" U+0623,              *)
(*                    "alefHamzaBelow" U+0625, "lam", "jeem", "meem",      *)
(*                    "yeh", "feh", "seen", "ain", "reh", "noon", "heh"    *)
(*   Arabic-Indic digits "ar0".."ar9" (U+0660..9), Persian digits          *)
(*                    "fa0".."fa9" (U+06F0..9)                             *)
(*                    "waw", "sad", "hah", "dal", "beh", "teh", "qaf",      *)
(*                    "tehMarbuta"                                         *)
(*   "RLM" U+200F (right-to-left mark), "TATWEEL" U+0640, "EURO" U+20AC    *)
(* "NL" is the line break.  ocrText is held as the sequence of its lines,  *)
(* i.e. the value of ocrText.split('\n'); no line contains "NL".           *)
(*                                                                         *)
(* Numbers: an amount is held in hundredths (Scale = 100), which is exact  *)
(* for every input with at most two fractional digits; null is NULL.       *)
(* A confidence is held in thousandths (0.52 is 520).                      *)
(***************************************************************************)
EXTENDS Integers, Sequences, FiniteSets, TLC

Scale == 100
NULL == -1

\* ------------------------------------------------------------------------
\* Character classes of the JavaScript regular expressions
\* ------------------------------------------------------------------------
AsciiDigits == <<"0", "1", "2", "3", "4", "5", "6", "7", "8", "9">>
\* numberParser.ts arabicToWestern
arabicToWestern == <<"ar0", "ar1", "ar2", "ar3", "ar4", "ar5", "ar6", "ar7", "ar8", "ar9">>
\* numberParser.ts persianToWestern
persianToWestern == <<"fa0", "fa1", "fa2", "fa3", "fa4", "fa5", "fa6", "fa7", "fa8", "fa9">>

Range(f) == {f[i] : i \in DOMAIN f}

AsciiDigitSet == Range(AsciiDigits)
ArabicIndicSet == Range(arabicToWestern)
PersianSet == Range(persianToWestern)

\* \d matches ASCII digits only
IsDigit(c) == c \in AsciiDigitSet
\* \s (and String.prototype.trim): the bidi marks are not white space
IsSpace(c) == c \in {" ", "TAB", "NL"}
AsciiLower == {"a", "b", "c", "d", "e", "f", "g", "h", "i", "j", "k", "l", "m",
               "n", "o", "p", "q", "r", "s", "t", "u", "v", "w", "x", "y", "z"}
UpperOf == [c \in AsciiLower |->
              CASE c = "a" -> "A" [] c = "b" -> "B" [] c = "c" -> "C" [] c = "d" -> "D"
                [] c = "e" -> "E" [] c = "f" -> "F" [] c = "g" -> "G" [] c = "h" -> "H"
                [] c = "i" -> "I" [] c = "j" -> "J" [] c = "k" -> "K" [] c = "l" -> "L"
                [] c = "m" -> "M" [] c = "n" -> "N" [] c = "o" -> "O" [] c = "p" -> "P"
                [] c = "q" -> "Q" [] c = "r" -> "R" [] c = "s" -> "S" [] c = "t" -> "T"
                [] c = "u" -> "U" [] c = "v" -> "V" [] c = "w" -> "W" [] c = "x" -> "X"
                [] c = "y" -> "Y" [] c = "z" -> "Z"]
AsciiUpper == Range(UpperOf)
\* \w, which decides where \b holds
IsWordChar(c) == IsDigit(c) \/ c \in AsciiLower \/ c \in AsciiUpper \/ c = "_"

DigitValue(c) == (CHOOSE d \in 1..10 : AsciiDigits[d] = c) - 1

\* ------------------------------------------------------------------------
\* String primitives
\* ------------------------------------------------------------------------
LowerChar(c) == IF c \in AsciiUpper THEN CHOOSE l \in DOMAIN UpperOf : UpperOf[l] = c ELSE c
\* String.prototype.toLowerCase
toLowerCase(s) == [i \in 1..Len(s) |-> LowerChar(s[i])]

\* s has pattern p at position i (1-based)
MatchAt(s, p, i) == i >= 1 /\ i + Len(p) - 1 <= Len(s) /\ SubSeq(s, i, i + Len(p) - 1) = p
\* String.prototype.includes
Includes(s, p) == \E i \in 1..(Len(s) + 1) : MatchAt(s, p, i)

IsBlank(s) == \A i \in 1..Len(s) : IsSpace(s[i])

\* String.prototype.trim
Trim(s) ==
  IF IsBlank(s) THEN <<>>
  ELSE LET a == CHOOSE i \in 1..Len(s) : ~IsSpace(s[i]) /\ \A j \in 1..(i - 1) : IsSpace(s[j])
           b == CHOOSE i \in 1..Len(s) : ~IsSpace(s[i]) /\ \A j \in (i + 1)..Len(s) : IsSpace(s[j])
       IN SubSeq(s, a, b)

\* replace(/\s+/g, ' ')
RECURSIVE CollapseSpaces(_)
CollapseSpaces(s) ==
  IF s = <<>> THEN <<>>
  ELSE IF IsSpace(s[1])
       THEN IF Len(s) >= 2 /\ IsSpace(s[2]) THEN CollapseSpaces(Tail(s))
            ELSE <<" ">> \o CollapseSpaces(Tail(s))
       ELSE <<s[1]>> \o CollapseSpaces(Tail(s))

\* end of the maximal run of characters satisfying the class that starts at i
\* (i - 1 when s[i] is not in the class)
RECURSIVE DigitRunEnd(_, _)
DigitRunEnd(s, i) == IF i <= Len(s) /\ IsDigit(s[i]) THEN DigitRunEnd(s, i + 1) ELSE i - 1
RECURSIVE SpaceRunEnd(_, _)
SpaceRunEnd(s, i) == IF i <= Len(s) /\ IsSpace(s[i]) THEN SpaceRunEnd(s, i + 1) ELSE i - 1

\* value of a run of ASCII digits, as an integer
RECURSIVE DigitsValue(_)
DigitsValue(d) == IF d = <<>> THEN 0
                  ELSE DigitsValue(SubSeq(d, 1, Len(d) - 1)) * 10 + DigitValue(d[Len(d)])

\* parseFloat of a token \d+ or \d+[.]\d+, in hundredths
parseFloat(tok) ==
  LET e == DigitRunEnd(tok, 1)
      int == DigitsValue(SubSeq(tok, 1, e))
      frac == IF e + 1 < Len(tok) /\ tok[e + 1] = "."
              THEN SubSeq(tok, e + 2, DigitRunEnd(tok, e + 2)) ELSE <<>>
      f1 == IF Len(frac) >= 1 THEN DigitValue(frac[1]) ELSE 0
      f2 == IF Len(frac) >= 2 THEN DigitValue(frac[2]) ELSE 0
  IN int * Scale + f1 * 10 + f2

\* numStr.replace(',', '.'): the first comma only
ReplaceComma(tok) ==
  IF \E i \in 1..Len(tok) : tok[i] = ","
  THEN LET i == CHOOSE k \in 1..Len(tok) : tok[k] = "," /\ \A j \in 1..(k - 1) : tok[j] # ","
       IN [tok EXCEPT ![i] = "."]
  ELSE tok

\* text.match(/\d+(?:[.,]\d+)?/g): the tokens, left to right
RECURSIVE NumberTokensFrom(_, _)
NumberTokensFrom(s, i) ==
  IF i > Len(s) THEN <<>>
  ELSE IF ~IsDigit(s[i]) THEN NumberTokensFrom(s, i + 1)
  ELSE LET e == DigitRunEnd(s, i)
           e2 == IF e + 2 <= Len(s) /\ s[e + 1] \in {".", ","} /\ IsDigit(s[e + 2])
                 THEN DigitRunEnd(s, e + 2) ELSE e
       IN <<SubSeq(s, i, e2)>> \o NumberTokensFrom(s, e2 + 1)
NumberTokens(s) == NumberTokensFrom(s, 1)

RECURSIVE SeqMax(_)
SeqMax(q) == IF Len(q) = 1 THEN q[1]
             ELSE LET m == SeqMax(Tail(q)) IN IF q[1] >= m THEN q[1] ELSE m
RECURSIVE SeqSum(_)
SeqSum(q) == IF q = <<>> THEN 0 ELSE q[1] + SeqSum(Tail(q))


\* ------------------------------------------------------------------------
\* src/src/utils/numberParser.ts
\* ------------------------------------------------------------------------
\* Words of the texts, as character sequences
W_alf == <<"alefHamzaAbove", "lam", "feh">>
W_alfPlain == <<"alef", "lam", "feh">>
W_gineh == <<"jeem", "noon", "yeh", "heh">>
W_ijmali == <<"alef", "lam", "alefHamzaBelow", "jeem", "meem", "alef", "lam", "yeh">>
W_ijmaliBare == <<"alefHamzaBelow", "jeem", "meem", "alef", "lam", "yeh">>
W_total == <<"t", "o", "t", "a", "l">>
W_sum == <<"s", "u", "m">>
W_tel == <<"t", "e", "l">>
W_tax == <<"t", "a", "x">>
W_egp == <<"e", "g", "p">>
W_eur == <<"e", "u", "r">>
W_euro == <<"e", "u", "r", "o">>
W_usd == <<"u", "s", "d">>
W_dollar == <<"d", "o", "l", "l", "a", "r">>
W_gbp == <<"g", "b", "p">>
W_pound == <<"p", "o", "u", "n", "d">>
W_cve == <<"c", "v", "e">>
W_escudo == <<"e", "s", "c", "u", "d", "o">>
W_k == <<"k">>

normalizeChar(c) ==
  IF c \in ArabicIndicSet
  THEN AsciiDigits[CHOOSE d \in 1..10 : arabicToWestern[d] = c]
  ELSE IF c \in PersianSet
  THEN AsciiDigits[CHOOSE d \in 1..10 : persianToWestern[d] = c]
  ELSE c
\* Persian digits taken to Arabic-Indic digits instead of ASCII digits
normalizeDigits_viaArabic(text) ==
  [i \in 1..Len(text) |->
     IF text[i] \in PersianSet
     THEN arabicToWestern[CHOOSE d \in 1..10 : persianToWestern[d] = text[i]]
     ELSE normalizeChar(text[i])]
\* text.split('').map(...).join('')
normalizeDigits(text) == [i \in 1..Len(text) |-> normalizeChar(text[i])]

\* \b before position i of s
WordBoundary(s, i) ==
  LET before == i - 1 >= 1 /\ i - 1 <= Len(s) /\ IsWordChar(s[i - 1])
      after == i >= 1 /\ i <= Len(s) /\ IsWordChar(s[i])
  IN before # after

\* the magnitude and currency words parseAmount blanks (those that occur in
\* the modelled texts), in the order of the two alternations
MagnitudeWords == <<W_alf, W_alfPlain, W_k>>
CurrencyWords == <<W_gineh, W_pound, W_dollar, W_euro, W_egp, W_usd, W_eur, W_cve>>

\* length of the first alternative of \b(w1|w2|...)\b (flag i) matching at i, or 0
WordMatchLen(s, i, words) ==
  LET first(hits) == IF hits = {} THEN 0
                     ELSE Len(words[CHOOSE k \in hits : \A j \in hits : k <= j])
  IN first({k \in 1..Len(words) : /\ MatchAt(toLowerCase(s), words[k], i)
                                  /\ WordBoundary(s, i)
                                  /\ WordBoundary(s, i + Len(words[k]))})

\* s.replace(/\b(w1|w2|...)\b/gi, ' ')
RECURSIVE ReplaceWordsFrom(_, _, _)
ReplaceWordsFrom(s, i, words) ==
  IF i > Len(s) THEN <<>>
  ELSE LET step(n) == IF n > 0 THEN <<" ">> \o ReplaceWordsFrom(s, i + n, words)
                       ELSE <<s[i]>> \o ReplaceWordsFrom(s, i + 1, words)
       IN step(WordMatchLen(s, i, words))
ReplaceWords(s, words) == ReplaceWordsFrom(s, 1, words)

CurrencySymbols == {"EURO", "$", "POUND", "YEN", "RUPEE"}
KeptChars == {".", ",", "|", "-"}

\* length of the match of /\s*[\|]\s*|\s{3,}|\s-\s/ at position i, or 0
SeparatorLen(s, i) ==
  LET e == SpaceRunEnd(s, i)
  IN IF e + 1 <= Len(s) /\ s[e + 1] = "|" THEN SpaceRunEnd(s, e + 2) - i + 1
     ELSE IF e - i + 1 >= 3 THEN e - i + 1
     ELSE IF i + 2 <= Len(s) /\ IsSpace(s[i]) /\ s[i + 1] = "-" /\ IsSpace(s[i + 2]) THEN 3
     ELSE 0

\* s.split(/\s*[\|]\s*|\s{3,}|\s-\s/): first is the start of the current part
RECURSIVE SplitColumnsFrom(_, _, _)
SplitColumnsFrom(s, first, i) ==
  IF i > Len(s) THEN <<SubSeq(s, first, Len(s))>>
  ELSE LET step(n) == IF n > 0
                       THEN <<SubSeq(s, first, i - 1)>> \o SplitColumnsFrom(s, i + n, i + n)
                       ELSE SplitColumnsFrom(s, first, i + 1)
       IN step(SeparatorLen(s, i))
SplitColumns(s) == SplitColumnsFrom(s, 1, 1)

\* /^\d{1,3}\s\d{3}$/
hasThousandsSeparator(part) ==
  LET e == DigitRunEnd(part, 1)
  IN /\ e >= 1 /\ e <= 3
     /\ Len(part) = e + 4
     /\ IsSpace(part[e + 1])
     /\ \A j \in (e + 2)..(e + 4) : IsDigit(part[j])

PositiveValues(tokens) ==
  LET vals == [k \in 1..Len(tokens) |-> parseFloat(ReplaceComma(tokens[k]))]
  IN SelectSeq(vals, LAMBDA v : v > 0)

\* the part tested as it stands, its whitespace runs not collapsed
PartNumbers_spacesKept(part) ==
  LET numbers(partCleaned) ==
        PositiveValues(NumberTokens(IF hasThousandsSeparator(partCleaned)
                                    THEN SelectSeq(partCleaned, LAMBDA c : ~IsSpace(c))
                                    ELSE partCleaned))
  IN numbers(Trim(part))

\* the numbers one part of the line contributes (the body of parts.forEach)
PartNumbers(part) ==
  LET numbers(partCleaned) ==
        PositiveValues(NumberTokens(IF hasThousandsSeparator(partCleaned)
                                    THEN SelectSeq(partCleaned, LAMBDA c : ~IsSpace(c))
                                    ELSE partCleaned))
  IN numbers(Trim(CollapseSpaces(part)))

RECURSIVE AllNumbers(_)
AllNumbers(parts) == IF parts = <<>> THEN <<>>
                     ELSE PartNumbers(parts[1]) \o AllNumbers(Tail(parts))

\* every number parseAmount finds in the text, in order
parseNumbers(text) ==
  LET noSymbols(s) == [i \in 1..Len(s) |-> IF s[i] \in CurrencySymbols THEN " " ELSE s[i]]
      cleanText(normalized) ==
        noSymbols(ReplaceWords(ReplaceWords(normalized, MagnitudeWords), CurrencyWords))
      cleaned(s) == [i \in 1..Len(s) |->
                       IF IsDigit(s[i]) \/ IsSpace(s[i]) \/ s[i] \in KeptChars
                       THEN s[i] ELSE " "]
  IN AllNumbers(SplitColumns(cleaned(cleanText(normalizeDigits(text)))))

parseAmount(text) ==
  IF text = <<>> THEN NULL
  ELSE LET maxNumber(allNumbers) == IF allNumbers = <<>> THEN NULL ELSE SeqMax(allNumbers)
       IN maxNumber(parseNumbers(text))

currencyPatterns ==
  << [alts |-> {<<"EURO">>, W_eur, W_euro}, code |-> <<"E", "U", "R">>],
     [alts |-> {<<"$">>, W_usd, W_dollar}, code |-> <<"U", "S", "D">>],
     [alts |-> {<<"POUND">>, W_gbp, W_pound}, code |-> <<"G", "B", "P">>],
     [alts |-> {W_egp, W_gineh}, code |-> <<"E", "G", "P">>],
     [alts |-> {W_cve, W_escudo}, code |-> <<"C", "V", "E">>] >>

\* pattern.test(text) for a pattern of literal alternatives with flag i
PatternTest(alts, text) == \E a \in alts : Includes(toLowerCase(text), a)


\* detectCurrency without a default: the empty code when no rule matches
detectCurrency_noDefault(text) ==
  IF \E k \in 1..Len(currencyPatterns) : PatternTest(currencyPatterns[k].alts, text)
  THEN currencyPatterns[CHOOSE k \in 1..Len(currencyPatterns) :
                           /\ PatternTest(currencyPatterns[k].alts, text)
                           /\ \A j \in 1..(k - 1) : ~PatternTest(currencyPatterns[j].alts, text)].code
  ELSE <<>>

\* the code of the last rule that matches
detectCurrency_lastMatch(text) ==
  IF \E k \in 1..Len(currencyPatterns) : PatternTest(currencyPatterns[k].alts, text)
  THEN currencyPatterns[CHOOSE k \in 1..Len(currencyPatterns) :
                          /\ PatternTest(currencyPatterns[k].alts, text)
                          /\ \A j \in (k + 1)..Len(currencyPatterns) :
                               ~PatternTest(currencyPatterns[j].alts, text)].code
  ELSE <<"E", "U", "R">>
DefaultCurrency == <<"E", "U", "R">>
detectCurrency(text) ==
  IF \E k \in 1..Len(currencyPatterns) : PatternTest(currencyPatterns[k].alts, text)
  THEN currencyPatterns[CHOOSE k \in 1..Len(currencyPatterns) :
                           /\ PatternTest(currencyPatterns[k].alts, text)
                           /\ \A j \in 1..(k - 1) : ~PatternTest(currencyPatterns[j].alts, text)].code
  ELSE DefaultCurrency

\* ------------------------------------------------------------------------
\* src/src/utils/amountExtraction.ts
\* ------------------------------------------------------------------------
\* The keyword tables.  HEADER_KEYWORDS is the table of the source;
\* TOTAL_KEYWORDS and IGNORE_KEYWORDS are restricted to the keywords that
\* occur in the modelled texts (no other keyword of the source's tables
\* occurs in any of them).
TOTAL_KEYWORDS == {W_ijmali, W_ijmaliBare, W_total, W_sum}
\* 'السعرالإجمالي', 'السعر الإجمالي', 'نوع الصنف', 'الحجم', 'العدد', 'السعر', 'الإجمالي |', '| الإجمالي'
HEADER_KEYWORDS_list ==
  << <<"alef", "lam", "seen", "ain", "reh", "alef", "lam", "alefHamzaBelow", "jeem", "meem", "alef", "lam", "yeh">>,
     <<"alef", "lam", "seen", "ain", "reh", " ", "alef", "lam", "alefHamzaBelow", "jeem", "meem", "alef", "lam", "yeh">>,
     <<"noon", "waw", "ain", " ", "alef", "lam", "sad", "noon", "feh">>,
     <<"alef", "lam", "hah", "jeem", "meem">>,
     <<"alef", "lam", "ain", "dal", "dal">>,
     <<"alef", "lam", "seen", "ain", "reh">>,
     <<"alef", "lam", "alefHamzaBelow", "jeem", "meem", "alef", "lam", "yeh", " ", "|">>,
     <<"|", " ", "alef", "lam", "alefHamzaBelow", "jeem", "meem", "alef", "lam", "yeh">> >>
HEADER_KEYWORDS == Range(HEADER_KEYWORDS_list)
IGNORE_KEYWORDS == {W_tax, W_tel}

\* the characters removeArabicDiacritics deletes that occur in the texts
DiacriticChars == {"LRM", "RLM", "TATWEEL", "FATHA"}
removeArabicDiacritics(text) == SelectSeq(text, LAMBDA c : c \notin DiacriticChars)

containsTotalKeywordNormalized(normalized) == \E kw \in TOTAL_KEYWORDS : Includes(normalized, kw)

Max2(a, b) == IF a >= b THEN a ELSE b
Min2(a, b) == IF a <= b THEN a ELSE b

\* index and the positions of normalizedLines are the 0-based ones of the code
hasTotalKeywordNearby(index, normalizedLines, window) ==
  LET start == Max2(0, index - window)
      end == Min2(Len(normalizedLines) - 1, index + window)
  IN \E i \in start..end : i # index /\ containsTotalKeywordNormalized(normalizedLines[i + 1])


\* calculateConfidence without the final clamp
calculateConfidence_unclamped(hasKeyword, isLastInList, amountSize, contextQuality) ==
  300 + (IF hasKeyword THEN 500 ELSE 0) + (IF isLastInList THEN 100 ELSE 0)
      + (IF amountSize > 1000 * Scale THEN 100 ELSE IF amountSize > 100 * Scale THEN 50 ELSE 0)
      + contextQuality \div 10

\* confidences and contextQuality in thousandths
calculateConfidence(hasKeyword, isLastInList, amountSize, contextQuality) ==
  LET c0 == 300
      c1 == IF hasKeyword THEN c0 + 500 ELSE c0
      c2 == IF isLastInList THEN c1 + 100 ELSE c1
      c3 == IF amountSize > 1000 * Scale THEN c2 + 100
            ELSE IF amountSize > 100 * Scale THEN c2 + 50 ELSE c2
      c4 == c3 + contextQuality \div 10
  IN Min2(c4, 1000)

\* ocrText.split('\n').filter(line => line.trim().length > 0)
NonBlankLines(text) == SelectSeq(text, LAMBDA l : Trim(l) # <<>>)
NormalizeLine(line) == removeArabicDiacritics(normalizeDigits(toLowerCase(line)))
NormalizedLines(lines) == [i \in 1..Len(lines) |-> NormalizeLine(lines[i])]

\* the whole text as one string
RECURSIVE JoinLines(_)
JoinLines(text) == IF text = <<>> THEN <<>>
                   ELSE IF Len(text) = 1 THEN text[1]
                   ELSE text[1] \o <<"NL">> \o JoinLines(Tail(text))

\* 0-based indices of the lines that carry a total keyword, ascending
totalHeaderIndices(normalizedLines) ==
  LET idx == [i \in 1..Len(normalizedLines) |-> i - 1]
  IN SelectSeq(idx, LAMBDA i : containsTotalKeywordNormalized(normalizedLines[i + 1]))

\* --- the four patterns of the pre-pass, on the raw total line -----------
Least(S) == CHOOSE x \in S : \A y \in S : x <= y

\* positions where the literal w starts
Occurrences(line, w) == {i \in 1..Len(line) : MatchAt(line, w, i)}
\* starts of the maximal runs of ASCII digits
DigitRunStarts(line) ==
  {i \in 1..Len(line) : IsDigit(line[i]) /\ (i = 1 \/ ~IsDigit(line[i - 1]))}
\* the digit run that starts at d is followed by \s* and the literal w
RunThenWord(line, d, w) ==
  MatchAt(line, w, SpaceRunEnd(line, DigitRunEnd(line, d) + 1) + 1)
RunValue(line, d) == parseFloat(SubSeq(line, d, DigitRunEnd(line, d)))

\* /الإجمالي.*?\|\s*.*?\|\s*.*?\|\s*.*?\|\s*(\d+)\s*ألف?/i : after the first
\* keyword the lazy .*? take the first three pipes; the capture is the digit
\* run that follows (after \s*) the first later pipe and is followed
\* (after \s*) by the two letters before the optional last one.
\* The amount parsed from the capture, or NULL without a match.
tableRowPattern(totalLine) ==
  LET kws == Occurrences(totalLine, W_ijmali)
      pipes == IF kws = {} THEN {}
               ELSE {p \in 1..Len(totalLine) :
                        totalLine[p] = "|" /\ p >= Least(kws) + Len(W_ijmali)}
      start(p) == SpaceRunEnd(totalLine, p + 1) + 1
      ok(p) == /\ Cardinality({q \in pipes : q < p}) >= 3
               /\ start(p) \in DigitRunStarts(totalLine)
               /\ RunThenWord(totalLine, start(p), SubSeq(W_alf, 1, 2))
  IN IF \E p \in pipes : ok(p)
     THEN RunValue(totalLine, start(Least({p \in pipes : ok(p)})))
     ELSE NULL

\* the first digit run at or after position from that \s* and the thousands
\* word follow
alefRunFrom(totalLine, from) ==
  {d \in DigitRunStarts(totalLine) : d >= from /\ RunThenWord(totalLine, d, W_alf)}

\* /الإجمالي.*?(\d+)\s*ألف/i
simplePattern(totalLine) ==
  LET kws == Occurrences(totalLine, W_ijmali)
      runs == IF kws = {} THEN {} ELSE alefRunFrom(totalLine, Least(kws) + Len(W_ijmali))
  IN IF runs = {} THEN NULL ELSE RunValue(totalLine, Least(runs))

\* /(\d+)\s*ألف/i
alefPattern(totalLine) ==
  LET runs == alefRunFrom(totalLine, 1)
  IN IF runs = {} THEN NULL ELSE RunValue(totalLine, Least(runs))

\* totalLine.split('|').map(col => col.trim())
RECURSIVE SplitPipesFrom(_, _, _)
SplitPipesFrom(s, first, i) ==
  IF i > Len(s) THEN <<Trim(SubSeq(s, first, Len(s)))>>
  ELSE IF s[i] = "|" THEN <<Trim(SubSeq(s, first, i - 1))>> \o SplitPipesFrom(s, i + 1, i + 1)
  ELSE SplitPipesFrom(s, first, i + 1)

\* the rightmost column whose first digit run (/(\d+)/) is above 1000
pipeColumnPattern(totalLine) ==
  LET columns == SplitPipesFrom(totalLine, 1, 1)
      first(k) == RunValue(columns[k], Least(DigitRunStarts(columns[k])))
      ok(k) == DigitRunStarts(columns[k]) # {} /\ first(k) > 1000 * Scale
  IN IF Includes(totalLine, <<"|">>) /\ \E k \in 1..Len(columns) : ok(k)
     THEN first(CHOOSE k \in 1..Len(columns) : ok(k) /\ \A j \in (k + 1)..Len(columns) : ~ok(j))
     ELSE NULL

NoResult == [amount |-> NULL, currency |-> <<>>, confidence |-> 0, rawText |-> <<>>]


\* the chain of the four patterns on one line, with the currency taken from
\* the text cur
PatternChain(totalLine, cur) ==
  LET hit(amount, conf) == [amount |-> amount, currency |-> detectCurrency(cur),
                            confidence |-> conf, rawText |-> totalLine]
  IN IF tableRowPattern(totalLine) > 0 THEN hit(tableRowPattern(totalLine), 990)
     ELSE IF simplePattern(totalLine) > 0 THEN hit(simplePattern(totalLine), 980)
     ELSE IF alefPattern(totalLine) > 0 THEN hit(alefPattern(totalLine), 970)
     ELSE IF pipeColumnPattern(totalLine) # NULL THEN hit(pipeColumnPattern(totalLine), 960)
     ELSE NoResult

\* the pre-pass on the FIRST line that carries a total keyword
PrePassResult_firstLine(lines) ==
  LET indices == totalHeaderIndices(NormalizedLines(lines))
  IN IF indices = <<>> THEN NoResult
     ELSE PatternChain(lines[indices[1] + 1], lines[indices[1] + 1])

\* the pre-pass taking the currency from the whole text
PrePassResult_textCurrency(lines) ==
  LET indices == totalHeaderIndices(NormalizedLines(lines))
  IN IF indices = <<>> THEN NoResult
     ELSE PatternChain(lines[indices[Len(indices)] + 1], JoinLines(lines))

\* the result of the pre-pass on the last total line, NoResult when it
\* returns nothing
PrePassResult(lines) ==
  LET indices == totalHeaderIndices(NormalizedLines(lines))
      totalLine == lines[indices[Len(indices)] + 1]
  IN IF indices = <<>> THEN NoResult
     ELSE PatternChain(totalLine, totalLine)

\* --- the per-line scan (the body of lines.forEach) ----------------------
hasAlefIndicatorIn(line) == Includes(line, W_alf) \/ Includes(line, W_alfPlain)
isTableHeaderText(text) == \E kw \in HEADER_KEYWORDS : Includes(text, kw)
hasIgnoreKeywordIn(normalizedLine) == \E kw \in IGNORE_KEYWORDS : Includes(normalizedLine, kw)

MaxAmount == 1000000
\* the last 5 lines: isLastInList and lines.slice(-5)
LastWindow == 5

\* the rightmost of the numbers of the line within 1000..1,000,000, when the
\* line has at least two numbers; NULL otherwise
RightmostLargeNumber(line) ==
  LET inRange(cand) == cand >= 1000 * Scale /\ cand <= MaxAmount * Scale
      last(cands, hits) ==
        IF Len(cands) >= 2 /\ hits # {}
        THEN cands[CHOOSE k \in hits : \A j \in hits : j <= k]
        ELSE NULL
      rightmost(cands) == last(cands, {k \in 1..Len(cands) : inRange(cands[k])})
      values(numberMatches) ==
        [k \in 1..Len(numberMatches) |-> parseFloat(ReplaceComma(numberMatches[k]))]
  IN rightmost(values(NumberTokens(normalizeDigits(line))))

LineAmount(line) ==
  LET orParsed(amount) == IF amount # NULL THEN amount ELSE parseAmount(line)
  IN orParsed(RightmostLargeNumber(line))

\* hasTotalNearbyContext of the line at the 0-based index
hasTotalNearbyContext(index, normalizedLines) ==
  \/ /\ containsTotalKeywordNormalized(normalizedLines[index + 1])
     /\ ~isTableHeaderText(normalizedLines[index + 1])
  \/ hasTotalKeywordNearby(index, normalizedLines, 2)

\* currentHasAlefOrTotal
HasAlefOrTotal(index, lines, normalizedLines) ==
  \/ hasAlefIndicatorIn(lines[index + 1])
  \/ /\ hasTotalNearbyContext(index, normalizedLines)
     /\ ~isTableHeaderText(normalizedLines[index + 1])

\* the line is left without a candidate: ignore keyword, no amount, or an
\* amount above the bound
LineSkipped(index, lines, normalizedLines) ==
  \/ /\ hasIgnoreKeywordIn(normalizedLines[index + 1])
     /\ ~hasTotalNearbyContext(index, normalizedLines)
     /\ ~hasAlefIndicatorIn(lines[index + 1])
  \/ LET unusable(amount) == amount = NULL \/ amount = 0 \/ amount > MaxAmount * Scale
     IN unusable(LineAmount(lines[index + 1]))

contextQualityOf(index, lines, normalizedLines) ==
  IF hasAlefIndicatorIn(lines[index + 1]) THEN 1500
  ELSE IF hasTotalNearbyContext(index, normalizedLines)
          /\ ~isTableHeaderText(normalizedLines[index + 1]) THEN 1000
  ELSE IF isTableHeaderText(normalizedLines[index + 1]) THEN 100
  ELSE 200

\* the candidate of a line that is not skipped
LineCandidate(index, lines, normalizedLines) ==
  LET candidate(line, amount, currentHasAlefOrTotal) ==
        [amount |-> amount,
         currency |-> detectCurrency(line),
         confidence |-> calculateConfidence(currentHasAlefOrTotal,
                                            index >= Len(lines) - LastWindow,
                                            amount,
                                            contextQualityOf(index, lines, normalizedLines)),
         lineIndex |-> index,
         line |-> line,
         hasTotalContext |-> currentHasAlefOrTotal]
  IN candidate(lines[index + 1], LineAmount(lines[index + 1]),
               HasAlefOrTotal(index, lines, normalizedLines))

\* bestHasAlefOrTotal; best is <<>> or <<candidate>>
bestHasAlefOrTotal(best) ==
  IF best = <<>> THEN FALSE
  ELSE \/ hasAlefIndicatorIn(best[1].line)
       \/ best[1].hasTotalContext /\ ~isTableHeaderText(toLowerCase(best[1].line))

Abs(x) == IF x >= 0 THEN x ELSE -x

\* confidence > bestCandidate.confidence + 1e-6: two scores differ by a
\* multiple of 0.005, and the rounding error of the doubles is below 1e-15
ConfidenceAbove(a, b) == a > b

\* Math.abs(confidence - bestCandidate.confidence) <= 0.01, as IEEE-754
\* doubles evaluate it: for every pair of scores calculateConfidence can
\* produce that are 0.01 apart the difference of the two doubles exceeds
\* the double 0.01 (0.42000000000000004 - 0.41000000000000003 is
\* 0.010000000000000009, and so for each of the 48 combinations of the
\* terms), so the test holds only for scores less than 0.01 apart.
ConfidenceTied(a, b) == Abs(a - b) < 10


\* the replacement condition without its context rule (the second disjunct)
ReplacesBest_noContextRule(cand, best) ==
  \/ best = <<>>
  \/ /\ cand.hasTotalContext = bestHasAlefOrTotal(best)
     /\ ConfidenceAbove(cand.confidence, best[1].confidence)
  \/ /\ cand.hasTotalContext = bestHasAlefOrTotal(best)
     /\ ConfidenceTied(cand.confidence, best[1].confidence)
     /\ \/ cand.amount > best[1].amount
        \/ cand.amount = best[1].amount /\ cand.lineIndex > best[1].lineIndex

\* the condition under which the candidate of the current line replaces best
ReplacesBest(cand, best) ==
  \/ best = <<>>
  \/ cand.hasTotalContext /\ ~bestHasAlefOrTotal(best)
  \/ /\ cand.hasTotalContext = bestHasAlefOrTotal(best)
     /\ ConfidenceAbove(cand.confidence, best[1].confidence)
  \/ /\ cand.hasTotalContext = bestHasAlefOrTotal(best)
     /\ ConfidenceTied(cand.confidence, best[1].confidence)
     /\ \/ cand.amount > best[1].amount
        \/ cand.amount = best[1].amount /\ cand.lineIndex > best[1].lineIndex

\* --- after the scan -----------------------------------------------------
\* the amounts within 1000..100,000 that parseAmount finds, one per line
ReasonableAmounts(lines) ==
  LET amounts == [i \in 1..Len(lines) |-> parseAmount(lines[i])]
  IN SelectSeq(amounts, LAMBDA a : a # NULL /\ a # 0 /\ a >= 1000 * Scale /\ a <= 100000 * Scale)

\* lines.find(line => parseAmount(line) === maxAmount) || bestCandidate.line
FindLineWithAmount(lines, amount, otherwise) ==
  LET first(hits) == IF hits # {} THEN lines[Least(hits)] ELSE otherwise
  IN first({i \in 1..Len(lines) : parseAmount(lines[i]) = amount})

\* the largest amount preferred without comparing it with the best candidate
CandidateResult_largestFirst(text, lines, cand) ==
  LET best == [amount |-> cand.amount, currency |-> cand.currency,
               confidence |-> cand.confidence, rawText |-> cand.line]
      choose(currency, sumOfAmounts, maxAmount) ==
        IF maxAmount * 10 > (sumOfAmounts - maxAmount) * 8
        THEN [amount |-> maxAmount, currency |-> currency,
              confidence |-> 750, rawText |-> FindLineWithAmount(lines, maxAmount, cand.line)]
        ELSE IF sumOfAmounts * 2 > maxAmount * 3 /\ sumOfAmounts <= 100000 * Scale
        THEN [amount |-> sumOfAmounts, currency |-> currency,
              confidence |-> 700, rawText |-> <<"Calculated from: ">>]
        ELSE best
      arabic(currency, allAmounts) ==
        IF Includes(currency, <<"E", "G">>) /\ Len(allAmounts) >= 2
        THEN choose(currency, SeqSum(allAmounts), SeqMax(allAmounts))
        ELSE best
  IN IF ~cand.hasTotalContext
     THEN arabic(detectCurrency(JoinLines(text)), ReasonableAmounts(lines))
     ELSE best

\* the return for a found candidate, the Arabic-receipt fallback included
CandidateResult(text, lines, cand) ==
  LET best == [amount |-> cand.amount, currency |-> cand.currency,
               confidence |-> cand.confidence, rawText |-> cand.line]
      choose(currency, sumOfAmounts, maxAmount) ==
        IF maxAmount * 10 > (sumOfAmounts - maxAmount) * 8 /\ maxAmount # cand.amount
        THEN [amount |-> maxAmount, currency |-> currency,
              confidence |-> 750, rawText |-> FindLineWithAmount(lines, maxAmount, cand.line)]
        ELSE IF sumOfAmounts * 2 > maxAmount * 3 /\ sumOfAmounts <= 100000 * Scale
        THEN [amount |-> sumOfAmounts, currency |-> currency,
              confidence |-> 700, rawText |-> <<"Calculated from: ">>]
        ELSE best
      arabic(currency, allAmounts) ==
        IF Includes(currency, <<"E", "G">>) /\ Len(allAmounts) >= 2
        THEN choose(currency, SeqSum(allAmounts), SeqMax(allAmounts))
        ELSE best
  IN IF ~cand.hasTotalContext
     THEN arabic(detectCurrency(JoinLines(text)), ReasonableAmounts(lines))
     ELSE best

\* lines.slice(-5)
LastLines(lines) == SubSeq(lines, Max2(1, Len(lines) - LastWindow + 1), Len(lines))


\* the not-found return keeping the confidence of the fallback
FallbackResult_keepsConfidence(text, lines) ==
  LET found(lastLines, amounts, i) ==
        [amount |-> amounts[i], currency |-> detectCurrency(lastLines[i]),
         confidence |-> 400, rawText |-> lastLines[i]]
      notFound(ocrText) ==
        [amount |-> NULL, currency |-> detectCurrency(ocrText),
         confidence |-> 400, rawText |-> ocrText]
      last(lastLines, amounts, hits) ==
        IF hits # {}
        THEN found(lastLines, amounts, CHOOSE k \in hits : \A j \in hits : j <= k)
        ELSE notFound(JoinLines(text))
      scan(lastLines, amounts) ==
        last(lastLines, amounts, {i \in 1..Len(amounts) : amounts[i] # NULL /\ amounts[i] > 0})
      from(lastLines) == scan(lastLines, [i \in 1..Len(lastLines) |-> parseAmount(lastLines[i])])
  IN from(LastLines(lines))

\* the last-resort fallback and the not-found return
FallbackResult(text, lines) ==
  LET found(lastLines, amounts, i) ==
        [amount |-> amounts[i], currency |-> detectCurrency(lastLines[i]),
         confidence |-> 400, rawText |-> lastLines[i]]
      notFound(ocrText) ==
        [amount |-> NULL, currency |-> detectCurrency(ocrText),
         confidence |-> 0, rawText |-> ocrText]
      last(lastLines, amounts, hits) ==
        IF hits # {}
        THEN found(lastLines, amounts, CHOOSE k \in hits : \A j \in hits : j <= k)
        ELSE notFound(JoinLines(text))
      scan(lastLines, amounts) ==
        last(lastLines, amounts, {i \in 1..Len(amounts) : amounts[i] # NULL /\ amounts[i] > 0})
      from(lastLines) == scan(lastLines, [i \in 1..Len(lastLines) |-> parseAmount(lastLines[i])])
  IN from(LastLines(lines))

\* ------------------------------------------------------------------------
\* The texts extractAmount is run on: up to MaxLines lines of the pool
\* ------------------------------------------------------------------------
\* " "
L_blank ==
  <<" ">>
\* "الإجمالي | | | | 44800 ألف"
L_tableTotal ==
  <<"alef", "lam", "alefHamzaBelow", "jeem", "meem", "alef", "lam", "yeh", " ", "|", " ", "|", " ", "|", " ", "|", " ", "4", "4", "8", "0", "0", " ", "alefHamzaAbove", "lam", "feh">>
\* "الإجمالي 5 ألف"
L_simpleTotal ==
  <<"alef", "lam", "alefHamzaBelow", "jeem", "meem", "alef", "lam", "yeh", " ", "5", " ", "alefHamzaAbove", "lam", "feh">>
\* "السعر | الإجمالي | 22000"
L_headerTotal ==
  <<"alef", "lam", "seen", "ain", "reh", " ", "|", " ", "alef", "lam", "alefHamzaBelow", "jeem", "meem", "alef", "lam", "yeh", " ", "|", " ", "2", "2", "0", "0", "0">>
\* "السعر | الإجمالي": column titles without a number
L_headerTitles ==
  <<"alef", "lam", "seen", "ain", "reh", " ", "|", " ", "alef", "lam", "alefHamzaBelow", "jeem", "meem", "alef", "lam", "yeh">>
\* "total"
L_totalLabel ==
  <<"t", "o", "t", "a", "l">>
\* "9000"
L_9000 ==
  <<"9", "0", "0", "0">>
\* "tel 12345678"
L_phone ==
  <<"t", "e", "l", " ", "1", "2", "3", "4", "5", "6", "7", "8">>
\* "السعر 8000"
L_header8000 ==
  <<"alef", "lam", "seen", "ain", "reh", " ", "8", "0", "0", "0">>
\* "جنيه 6000"
L_egp6000 ==
  <<"jeem", "noon", "yeh", "heh", " ", "6", "0", "0", "0">>
\* "٢٠٠٠"
L_arabic2000 ==
  <<"ar2", "ar0", "ar0", "ar0">>
\* "total 7 ألف"
L_alefTotal ==
  <<"t", "o", "t", "a", "l", " ", "7", " ", "alefHamzaAbove", "lam", "feh">>
\* "الإجمالي | | | | 12345678 ألف"
L_tableHuge ==
  <<"alef", "lam", "alefHamzaBelow", "jeem", "meem", "alef", "lam", "yeh", " ", "|", " ", "|", " ", "|", " ", "|", " ", "1", "2", "3", "4", "5", "6", "7", "8", " ", "alefHamzaAbove", "lam", "feh">>
\* "7 ألف"
L_alefOnly ==
  <<"7", " ", "alefHamzaAbove", "lam", "feh">>
\* "total 300"
L_total300 ==
  <<"t", "o", "t", "a", "l", " ", "3", "0", "0">>
\* the lines of the short texts
LinePool == <<L_blank, L_simpleTotal, L_totalLabel, L_9000, L_phone, L_header8000, L_arabic2000>>
\* the lines of the one- and two-line texts and of the long texts
WidePool == LinePool \o <<L_tableTotal, L_headerTotal, L_egp6000, L_alefTotal, L_tableHuge,
                        L_alefOnly, L_total300, L_headerTitles>>

\* a line without digit or keyword, to make texts longer than the last-5 window
L_filler == <<"x">>
Filler == [i \in 1..LastWindow |-> L_filler]


\* the end-to-end scenario of the specification (an Arabic table receipt)
\* "نوع الصنف | الحجم | العدد | السعر | الإجمالي"
S_header ==
  <<"noon", "waw", "ain", " ", "alef", "lam", "sad", "noon", "feh", " ", "|", " ", "alef", "lam", "hah", "jeem", "meem", " ", "|", " ", "alef", "lam", "ain", "dal", "dal", " ", "|", " ", "alef", "lam", "seen", "ain", "reh", " ", "|", " ", "alef", "lam", "alefHamzaBelow", "jeem", "meem", "alef", "lam", "yeh">>
\* "برتقال | 5 | 40 | 550 | 22000"
S_orange ==
  <<"beh", "reh", "teh", "qaf", "alef", "lam", " ", "|", " ", "5", " ", "|", " ", "4", "0", " ", "|", " ", "5", "5", "0", " ", "|", " ", "2", "2", "0", "0", "0">>
\* "جوافة | 5 | 10 | 380 | 3800"
S_guava ==
  <<"jeem", "waw", "alef", "feh", "tehMarbuta", " ", "|", " ", "5", " ", "|", " ", "1", "0", " ", "|", " ", "3", "8", "0", " ", "|", " ", "3", "8", "0", "0">>
\* "فراولة | 5 | 20 | 380 | 7600"
S_strawberry ==
  <<"feh", "reh", "alef", "waw", "lam", "tehMarbuta", " ", "|", " ", "5", " ", "|", " ", "2", "0", " ", "|", " ", "3", "8", "0", " ", "|", " ", "7", "6", "0", "0">>
ScenarioDoc == <<S_header, S_orange, S_guava, S_strawberry, L_tableTotal>>

MaxLines == 3

ShortDocs == UNION {[1..n -> Range(LinePool)] : n \in 0..MaxLines}
PairDocs == UNION {[1..n -> Range(WidePool)] : n \in 1..2}
\* two lines and five fillers: both lines before the last five lines, or one
\* before and one after; and a number followed by five lines of another number
LongDocs == {<<a, b>> \o Filler : a, b \in Range(WidePool)}
              \cup {<<a>> \o Filler \o <<b>> : a, b \in Range(WidePool)}
              \cup {<<a>> \o [i \in 1..LastWindow |-> b] : a, b \in {L_9000, L_arabic2000}}
Docs == ShortDocs \cup PairDocs \cup LongDocs \cup {ScenarioDoc}

\* ------------------------------------------------------------------------
\* extractAmount as a state machine: one call per behaviour
\* ------------------------------------------------------------------------
VARIABLES
  ocrText,        \* the argument, as the sequence of its lines
  pc,             \* position in extractAmount
  lines,          \* the non-blank lines
  index,          \* 0-based index of the line the scan is at
  bestCandidate,  \* <<>> (null) or <<candidate>>
  result,         \* the returned ExtractedAmount
  stage,          \* which return statement produced the result
  input,           \* the argument of a call of a numberParser function
  parsed,         \* that call: the function, its argument and what it returned
  history,        \* the earlier calls of extractAmount: text and result
  ocr,            \* a performOCR call: promise, worker, timer, messages
  ai,             \* an extractAmountWithAI call
  store           \* the voucher store and the vouchers in IndexedDB

vars == <<ocrText, pc, lines, index, bestCandidate, result, stage, input, parsed,
          history, ocr, ai, store>>
extractVars == <<ocrText, pc, lines, index, bestCandidate, result, stage>>
parseVars == <<input, parsed>>
\* what an action of extractAmount or of numberParser leaves alone
appVars == <<history, ocr, ai, store>>

\* no call of a numberParser function yet
NoParse == [fn |-> "none", arg |-> <<>>, out |-> <<>>, numbers |-> <<>>, calls |-> 0]

Init ==
  /\ ocrText \in Docs
  /\ pc = "entry"
  /\ lines = <<>>
  /\ index = 0
  /\ bestCandidate = <<>>
  /\ result = NoResult
  /\ stage = "none"
  /\ input = <<>>
  /\ parsed = NoParse
  /\ history = <<>>
  /\ ocr = <<>>
  /\ ai = <<>>
  /\ store = <<>>

Return(r, st) ==
  /\ result' = r
  /\ stage' = st
  /\ pc' = "done"

\* the empty guard of extractAmount (lines 111-119) and the split into lines
EmptyGuard ==
  /\ pc = "entry"
  /\ IF Trim(JoinLines(ocrText)) = <<>>
     THEN /\ Return([amount |-> NULL, currency |-> DefaultCurrency, confidence |-> 0,
                     rawText |-> JoinLines(ocrText)], "empty")
          /\ UNCHANGED lines
     ELSE /\ lines' = NonBlankLines(ocrText)
          /\ pc' = "prepass"
          /\ UNCHANGED <<result, stage>>
  /\ UNCHANGED <<ocrText, index, bestCandidate, input, parsed>>
  /\ UNCHANGED appVars

\* the pre-pass on the last total line (lines 133-234)
PrePass ==
  /\ pc = "prepass"
  /\ LET returnOrScan(r) == IF r # NoResult
                             THEN Return(r, "prepass")
                             ELSE /\ pc' = "scan"
                                  /\ UNCHANGED <<result, stage>>
     IN returnOrScan(PrePassResult(lines))
  /\ UNCHANGED <<ocrText, lines, index, bestCandidate, input, parsed>>
  /\ UNCHANGED appVars

\* one iteration of lines.forEach (lines 248-342)
ScanLine ==
  /\ pc = "scan"
  /\ index < Len(lines)
  /\ LET update(cand) == IF ReplacesBest(cand, bestCandidate)
                          THEN bestCandidate' = <<cand>>
                          ELSE UNCHANGED bestCandidate
         callback(normalizedLines) ==
           IF LineSkipped(index, lines, normalizedLines)
           THEN UNCHANGED bestCandidate
           ELSE update(LineCandidate(index, lines, normalizedLines))
     IN callback(NormalizedLines(lines))
  /\ index' = index + 1
  /\ UNCHANGED <<ocrText, pc, lines, result, stage, input, parsed>>
  /\ UNCHANGED appVars

\* the return of the best candidate, through the Arabic-receipt fallback
\* (lines 347-409)
ReturnCandidate ==
  /\ pc = "scan"
  /\ index = Len(lines)
  /\ bestCandidate # <<>>
  /\ LET return(r) ==
           Return(r, IF r.confidence = 750 /\ r.amount # bestCandidate[1].amount THEN "arabicMax"
                     ELSE IF r.rawText = <<"Calculated from: ">> THEN "arabicSum"
                     ELSE "candidate")
     IN return(CandidateResult(ocrText, lines, bestCandidate[1]))
  /\ UNCHANGED <<ocrText, lines, index, bestCandidate, input, parsed>>
  /\ UNCHANGED appVars

\* the last-resort fallback and the not-found return (lines 411-435)
Fallback ==
  /\ pc = "scan"
  /\ index = Len(lines)
  /\ bestCandidate = <<>>
  /\ LET return(r) == Return(r, IF r.amount # NULL THEN "fallback" ELSE "notFound")
     IN return(FallbackResult(ocrText, lines))
  /\ UNCHANGED <<ocrText, lines, index, bestCandidate, input, parsed>>
  /\ UNCHANGED appVars

Next == EmptyGuard \/ PrePass \/ ScanLine \/ ReturnCandidate \/ Fallback

Spec == Init /\ [][Next]_vars

\* ------------------------------------------------------------------------
\* The functions of numberParser called on their own: one call of
\* parseAmount or detectCurrency, or normalizeDigits applied to a text and
\* then to its own output
\* ------------------------------------------------------------------------
\* "40 550 |22000"
T_columns ==
  <<"4", "0", " ", "5", "5", "0", " ", "|", "2", "2", "0", "0", "0">>
\* "50 300"
T_thousands ==
  <<"5", "0", " ", "3", "0", "0">>
\* "50  300"
T_twoSpaces ==
  <<"5", "0", " ", " ", "3", "0", "0">>
\* "20 380 7600"
T_rows ==
  <<"2", "0", " ", "3", "8", "0", " ", "7", "6", "0", "0">>
\* "3807600"
T_fusedRow ==
  <<"3", "8", "0", "7", "6", "0", "0">>
\* "۴۵ x ٣"
T_persian ==
  <<"fa4", "fa5", " ", "x", " ", "ar3">>
\* "EUR 5", "$ 5 EUR", "EGP euro", "5 CVE", "جنيه GBP",
\* "escudo $", "CVE جنيه", "برتقال 5", "x 5"
CurrencyCases ==
  {<<"E", "U", "R", " ", "5">>,
   <<"$", " ", "5", " ", "E", "U", "R">>,
   <<"E", "G", "P", " ", "e", "u", "r", "o">>,
   <<"5", " ", "C", "V", "E">>,
   <<"jeem", "noon", "yeh", "heh", " ", "G", "B", "P">>,
   <<"e", "s", "c", "u", "d", "o", " ", "$">>,
   <<"C", "V", "E", " ", "jeem", "noon", "yeh", "heh">>,
   <<"beh", "reh", "teh", "qaf", "alef", "lam", " ", "5">>,
   <<"x", " ", "5">>}
ParseCases ==
  {T_columns, T_thousands, T_twoSpaces, T_rows, T_fusedRow, T_persian,
   L_alefOnly, L_simpleTotal, L_egp6000, L_arabic2000,
   <<"3", ".", "5", "0", " ", "2", "0">>, <<"5", "0", "x", "3", "0", "0">>} \cup CurrencyCases

\* the characters and the length of the generated texts
ParseChars == {"5", "0", " ", "ar3"}
MaxChars == 6
ParseTexts == UNION {[1..n -> ParseChars] : n \in 0..MaxChars} \cup ParseCases

ParseInit ==
  /\ input \in ParseTexts
  /\ parsed = NoParse
  /\ ocrText = <<>>
  /\ pc = "idle"
  /\ lines = <<>>
  /\ index = 0
  /\ bestCandidate = <<>>
  /\ result = NoResult
  /\ stage = "none"
  /\ history = <<>>
  /\ ocr = <<>>
  /\ ai = <<>>
  /\ store = <<>>

\* normalizeDigits(input), then normalizeDigits of what that returned
CallNormalizeDigits ==
  /\ pc = "idle"
  /\ parsed.fn \in {"none", "normalizeDigits"}
  /\ parsed.calls < 2
  /\ LET call(arg) == parsed' = [fn |-> "normalizeDigits", arg |-> arg,
                                out |-> normalizeDigits(arg), numbers |-> <<>>,
                                calls |-> parsed.calls + 1]
     IN call(IF parsed.fn = "none" THEN input ELSE parsed.out)
  /\ UNCHANGED <<ocrText, pc, lines, index, bestCandidate, result, stage, input>>
  /\ UNCHANGED appVars

\* parseAmount(input), with the numbers it collected (allNumbers)
CallParseAmount ==
  /\ pc = "idle"
  /\ parsed.fn = "none"
  /\ parsed' = [fn |-> "parseAmount", arg |-> input, out |-> parseAmount(input),
                numbers |-> parseNumbers(input), calls |-> 1]
  /\ UNCHANGED <<ocrText, pc, lines, index, bestCandidate, result, stage, input>>
  /\ UNCHANGED appVars

\* detectCurrency(input)
CallDetectCurrency ==
  /\ pc = "idle"
  /\ parsed.fn = "none"
  /\ parsed' = [fn |-> "detectCurrency", arg |-> input, out |-> detectCurrency(input),
                numbers |-> <<>>, calls |-> 1]
  /\ UNCHANGED <<ocrText, pc, lines, index, bestCandidate, result, stage, input>>
  /\ UNCHANGED appVars

ParseNext == CallNormalizeDigits \/ CallParseAmount \/ CallDetectCurrency

ParseSpec == ParseInit /\ [][ParseNext]_vars

\* extractAmount on a text, or one of the numberParser functions on its own
AllInit == Init \/ ParseInit
AllNext == Next \/ ParseNext
AllSpec == AllInit /\ [][AllNext]_vars

\* ------------------------------------------------------------------------
\* extractAmount called again and again: each call starts from its text
\* alone, lines, index and bestCandidate being locals of the call
\* ------------------------------------------------------------------------
CallDocs == UNION {[1..n -> {L_phone, L_arabic2000, L_egp6000}] : n \in 1..2}
MaxCalls == 3

RepeatInit ==
  /\ Init
  /\ ocrText \in CallDocs

\* a further call that finds the bestCandidate of the call before
NextCall_keepsBest ==
  /\ pc = "done"
  /\ Len(history) < MaxCalls - 1
  /\ history' = Append(history, [text |-> ocrText, result |-> result])
  /\ ocrText' \in CallDocs
  /\ pc' = "entry"
  /\ lines' = <<>>
  /\ index' = 0
  /\ result' = NoResult
  /\ stage' = "none"
  /\ UNCHANGED <<bestCandidate, input, parsed, ocr, ai, store>>

\* the call has returned and extractAmount is called with another text
NextCall ==
  /\ pc = "done"
  /\ Len(history) < MaxCalls - 1
  /\ history' = Append(history, [text |-> ocrText, result |-> result])
  /\ ocrText' \in CallDocs
  /\ pc' = "entry"
  /\ lines' = <<>>
  /\ index' = 0
  /\ bestCandidate' = <<>>
  /\ result' = NoResult
  /\ stage' = "none"
  /\ UNCHANGED <<input, parsed, ocr, ai, store>>

RepeatNext == Next \/ NextCall
RepeatSpec == RepeatInit /\ [][RepeatNext]_vars

\* extractAmount called on a text and then on normalizeDigits of that text
\* "الإجمالي ٥ ألف"
L_arabicTotal ==
  <<"alef", "lam", "alefHamzaBelow", "jeem", "meem", "alef", "lam", "yeh", " ", "ar5", " ", "alefHamzaAbove", "lam", "feh">>
\* "total ۹۰۰۰"
L_persianTotal ==
  <<"t", "o", "t", "a", "l", " ", "fa9", "fa0", "fa0", "fa0">>
MaxDigitLines == 2
DigitDocs ==
  UNION {[1..n -> {L_arabic2000, L_arabicTotal, L_persianTotal, L_egp6000, L_filler}] :
           n \in 1..MaxDigitLines}
\* normalizeDigits(text): line breaks are kept
NormalizeText(text) == [i \in 1..Len(text) |-> normalizeDigits(text[i])]

DigitInit ==
  /\ ocrText \in DigitDocs
  /\ pc = "entry"
  /\ lines = <<>>
  /\ index = 0
  /\ bestCandidate = <<>>
  /\ result = NoResult
  /\ stage = "none"
  /\ input = <<>>
  /\ parsed = NoParse
  /\ history = <<>>
  /\ ocr = <<>>
  /\ ai = <<>>
  /\ store = <<>>

\* the second call: extractAmount(normalizeDigits(text))
CallOnNormalized ==
  /\ pc = "done"
  /\ history = <<>>
  /\ history' = <<[text |-> ocrText, result |-> result, stage |-> stage]>>
  /\ ocrText' = NormalizeText(ocrText)
  /\ pc' = "entry"
  /\ lines' = <<>>
  /\ index' = 0
  /\ bestCandidate' = <<>>
  /\ result' = NoResult
  /\ stage' = "none"
  /\ UNCHANGED <<input, parsed, ocr, ai, store>>

DigitNext == Next \/ CallOnNormalized
DigitSpec == DigitInit /\ [][DigitNext]_vars

\* ------------------------------------------------------------------------
\* src/src/pages/Scan.tsx performOCR and src/src/workers/ocr.worker.ts
\* ------------------------------------------------------------------------
\* extractAmount and numberParser are not running
IdleExtract ==
  /\ ocrText = <<>>
  /\ pc = "idle"
  /\ lines = <<>>
  /\ index = 0
  /\ bestCandidate = <<>>
  /\ result = NoResult
  /\ stage = "none"
  /\ input = <<>>
  /\ parsed = NoParse
  /\ history = <<>>

\* what recognition would read from the image
OcrTexts == {<<>>, L_9000, L_simpleTotal}
\* progress messages of the tesseract logger in one recognition
MaxProgress == 2

\* resolve and reject of a promise: only the first call settles it
Settle(promise, state, value) ==
  IF promise.state = "pending" THEN [state |-> state, value |-> value] ELSE promise

OcrInit ==
  /\ IdleExtract
  /\ ai = <<>>
  /\ store = <<>>
  /\ \E t \in OcrTexts :
       ocr = [promise |-> [state |-> "pending", value |-> <<>>],
              worker |-> "running",      \* new Worker(...)
              timer |-> "armed",         \* setTimeout(..., 30000)
              wpc |-> "posted",          \* worker.postMessage({type: 'recognize'})
              image |-> t,
              sent |-> 0,
              channel |-> <<>>,          \* events on their way to the page
              progress |-> 0]            \* setProgress calls of the page

OcrStep(next) ==
  /\ ocr # <<>>
  /\ ocr' = next
  /\ UNCHANGED <<extractVars, parseVars, history, ai, store>>

Post(msg) == Append(ocr.channel, msg)

\* self.onmessage: initWorker succeeded, the first progress message
WorkerStart ==
  /\ ocr # <<>> /\ ocr.worker = "running" /\ ocr.wpc = "posted"
  /\ OcrStep([ocr EXCEPT !.wpc = "recognizing",
                         !.channel = Post([type |-> "progress", text |-> <<>>])])

\* the logger of createWorker while the text is recognised
WorkerProgress ==
  /\ ocr # <<>> /\ ocr.worker = "running" /\ ocr.wpc = "recognizing"
  /\ ocr.sent < MaxProgress
  /\ OcrStep([ocr EXCEPT !.sent = @ + 1,
                         !.channel = Post([type |-> "progress", text |-> <<>>])])

\* worker.recognize returned
WorkerResult ==
  /\ ocr # <<>> /\ ocr.worker = "running" /\ ocr.wpc = "recognizing"
  /\ OcrStep([ocr EXCEPT !.wpc = "done",
                         !.channel = Post([type |-> "result", text |-> ocr.image])])

\* initWorker or worker.recognize threw: the catch block
WorkerFails ==
  /\ ocr # <<>> /\ ocr.worker = "running" /\ ocr.wpc \in {"posted", "recognizing"}
  /\ OcrStep([ocr EXCEPT !.wpc = "failed",
                         !.channel = Post([type |-> "error", text |-> <<>>])])

\* the worker script fails outside the try block: an error event
WorkerErrorEvent ==
  /\ ocr # <<>> /\ ocr.worker = "running" /\ ocr.wpc \in {"posted", "recognizing"}
  /\ OcrStep([ocr EXCEPT !.wpc = "crashed",
                         !.channel = Post([type |-> "workerError", text |-> <<>>])])

\* the result handler without worker.terminate()
OnEvent_resultKeepsWorker(o, msg) ==
  IF msg.type = "progress"
  THEN [o EXCEPT !.progress = @ + 1]
  ELSE IF msg.type = "result"
  THEN [o EXCEPT !.timer = IF @ = "armed" THEN "cleared" ELSE @,
                 !.promise = Settle(@, "resolved", msg.text)]
  ELSE [o EXCEPT !.timer = IF @ = "armed" THEN "cleared" ELSE @,
                 !.worker = "terminated",
                 !.promise = Settle(@, "rejected", msg.type)]

\* worker.onmessage and worker.onerror
OnEvent(o, msg) ==
  IF msg.type = "progress"
  THEN [o EXCEPT !.progress = @ + 1]
  ELSE IF msg.type = "result"
  THEN [o EXCEPT !.timer = IF @ = "armed" THEN "cleared" ELSE @,
                 !.worker = "terminated",
                 !.promise = Settle(@, "resolved", msg.text)]
  ELSE [o EXCEPT !.timer = IF @ = "armed" THEN "cleared" ELSE @,
                 !.worker = "terminated",
                 !.promise = Settle(@, "rejected", msg.type)]

\* the page handles the next event, also one that was queued before the
\* worker was terminated
Deliver ==
  /\ ocr # <<>> /\ ocr.channel # <<>>
  /\ OcrStep(OnEvent([ocr EXCEPT !.channel = Tail(@)], Head(ocr.channel)))

\* worker.terminate() discards what the worker has sent and not delivered
DiscardAfterTerminate ==
  /\ ocr # <<>> /\ ocr.worker = "terminated" /\ ocr.channel # <<>>
  /\ OcrStep([ocr EXCEPT !.channel = <<>>])

\* the callback of setTimeout after 30 s
Timeout ==
  /\ ocr # <<>> /\ ocr.timer = "armed"
  /\ OcrStep([ocr EXCEPT !.timer = "fired",
                         !.worker = "terminated",
                         !.promise = Settle(@, "rejected", "timeout")])

OcrNext ==
  \/ WorkerStart \/ WorkerProgress \/ WorkerResult \/ WorkerFails \/ WorkerErrorEvent
  \/ Deliver \/ DiscardAfterTerminate \/ Timeout
OcrSpec == OcrInit /\ [][OcrNext]_vars
\* the timer runs and the event loop handles what is queued
OcrFairSpec == OcrSpec /\ WF_vars(Timeout) /\ WF_vars(Deliver)

\* ------------------------------------------------------------------------
\* src/src/utils/amountExtraction.ts extractAmountWithAI
\* ------------------------------------------------------------------------
\* confidence of a producer in thousandths, of the returned result in 1/10000
AiAmounts == {NULL, 0, 900000}
AiConfidences == {0, 100, 101, 800, 950}
\* what analyzeVoucherImage or enhanceOCRWithAI can do: throw, or answer
AiOutcomes ==
  {[threw |-> TRUE, amount |-> NULL, currency |-> "EGP", confidence |-> 0]}
  \cup [threw : {FALSE}, amount : AiAmounts, currency : {"EGP", "USD"},
        confidence : AiConfidences]
AiTexts == {<<>>, L_blank, L_9000}

\* visionResult.amount && visionResult.confidence > 0.1 without the amount
Usable_anyAmount(r) == r.confidence > 100

\* visionResult.amount && visionResult.confidence > 0.1
Usable(r) == r.amount # NULL /\ r.amount # 0 /\ r.confidence > 100

AiFailure == [amount |-> NULL, currency |-> "EGP", confidence |-> 0, method |-> "traditional"]

AiInit ==
  /\ IdleExtract
  /\ ocr = <<>>
  /\ store = <<>>
  /\ \E k, img \in BOOLEAN, t \in AiTexts :
       ai = [pc |-> "entry", apiKey |-> k, imageBlob |-> img, ocrText |-> t,
             called |-> <<>>, answers |-> <<>>, returned |-> <<>>, threw |-> FALSE]

AiStep(next) ==
  /\ ai # <<>>
  /\ ai' = next
  /\ UNCHANGED <<extractVars, parseVars, history, ocr, store>>

\* if (!aiConfig?.apiKey) return failure
AiCheckKey ==
  /\ ai # <<>> /\ ai.pc = "entry"
  /\ AiStep(IF ~ai.apiKey
            THEN [ai EXCEPT !.pc = "done", !.returned = AiFailure]
            ELSE [ai EXCEPT !.pc = "vision"])

\* if (imageBlob) try { analyzeVoucherImage } catch
AiVision ==
  /\ ai # <<>> /\ ai.pc = "vision"
  /\ IF ~ai.imageBlob
     THEN AiStep([ai EXCEPT !.pc = "ocr"])
     ELSE \E r \in AiOutcomes :
            LET a == [ai EXCEPT !.called = Append(@, "vision"), !.answers = Append(@, r)]
            IN AiStep(IF ~r.threw /\ Usable(r)
                      THEN [a EXCEPT !.pc = "done",
                                     !.returned = [amount |-> r.amount, currency |-> r.currency,
                                                   confidence |-> Min2(r.confidence * 12, 9900),
                                                   method |-> "ai-vision"]]
                      ELSE [a EXCEPT !.pc = "ocr"])

\* if (ocrText?.trim()) try { enhanceOCRWithAI } catch
AiOcr ==
  /\ ai # <<>> /\ ai.pc = "ocr"
  /\ IF Trim(ai.ocrText) = <<>>
     THEN AiStep([ai EXCEPT !.pc = "failed"])
     ELSE \E r \in AiOutcomes :
            LET a == [ai EXCEPT !.called = Append(@, "ocr"), !.answers = Append(@, r)]
            IN AiStep(IF ~r.threw /\ Usable(r)
                      THEN [a EXCEPT !.pc = "done",
                                     !.returned = [amount |-> r.amount, currency |-> r.currency,
                                                   confidence |-> Min2(r.confidence * 11, 9500),
                                                   method |-> "ai-ocr"]]
                      ELSE [a EXCEPT !.pc = "failed"])

\* the final return: no traditional fallback
AiReturnFailure ==
  /\ ai # <<>> /\ ai.pc = "failed"
  /\ AiStep([ai EXCEPT !.pc = "done", !.returned = AiFailure])

AiNext == AiCheckKey \/ AiVision \/ AiOcr \/ AiReturnFailure
AiSpec == AiInit /\ [][AiNext]_vars

\* ------------------------------------------------------------------------
\* src/src/store/voucherStore.ts and src/src/utils/storage.ts
\* ------------------------------------------------------------------------
\* amounts of a voucher in hundredths, NULL for amount: null
VoucherPool ==
  {[id |-> "a", amount |-> 10000, currency |-> "EGP"],
   [id |-> "a", amount |-> NULL, currency |-> "EGP"],
   [id |-> "b", amount |-> 25000, currency |-> "EGP"],
   [id |-> "b", amount |-> 0, currency |-> "USD"],
   [id |-> "c", amount |-> 40000, currency |-> "USD"]}
\* updates: Partial<Voucher>
VoucherUpdates == {[amount |-> 70000], [currency |-> "USD"]}
\* asynchronous store actions called in one run
MaxTasks == 2
\* vouchers in the database when the store is loaded
MaxLoaded == 2

Ids(vs) == {vs[i].id : i \in 1..Len(vs)}
DbIds(db) == {v.id : v \in db}
RECURSIVE SelectVouchers(_, _)
\* vouchers.filter(v => keep.has(v.id)) for a set of ids
SelectVouchers(vs, keep) ==
  IF vs = <<>> THEN <<>>
  ELSE (IF Head(vs).id \in keep THEN <<Head(vs)>> ELSE <<>>) \o SelectVouchers(Tail(vs), keep)

\* { ...voucher, ...updates }
Merge(voucher, updates) ==
  [f \in DOMAIN voucher |-> IF f \in DOMAIN updates THEN updates[f] ELSE voucher[f]]

\* db.put('vouchers', voucher) with keyPath id
DbPut(db, v) == {d \in db : d.id # v.id} \cup {v}

\* getSelectedVouchers
getSelectedVouchers(s) == SelectVouchers(s.vouchers, s.selectedIds)

RECURSIVE validVouchers_all(_)
\* the filter of calculateTotals keeping every voucher with an amount
validVouchers_all(vs) ==
  IF vs = <<>> THEN <<>>
  ELSE (IF Head(vs).amount # NULL THEN <<Head(vs)>> ELSE <<>>) \o validVouchers_all(Tail(vs))

RECURSIVE validVouchers(_)
\* selected.filter(v => v.amount !== null && v.amount > 0)
validVouchers(vs) ==
  IF vs = <<>> THEN <<>>
  ELSE (IF Head(vs).amount # NULL /\ Head(vs).amount > 0 THEN <<Head(vs)>> ELSE <<>>)
       \o validVouchers(Tail(vs))

RECURSIVE byCurrency(_, _)
\* the reduce of calculateTotals: acc in insertion order of its keys
byCurrency(acc, vs) ==
  IF vs = <<>> THEN acc
  ELSE LET v == Head(vs)
           at == {i \in 1..Len(acc) : acc[i].currency = v.currency}
       IN IF at = {}
          THEN byCurrency(Append(acc, [currency |-> v.currency, total |-> v.amount, count |-> 1]),
                          Tail(vs))
          ELSE byCurrency([i \in 1..Len(acc) |->
                             IF i \in at
                             THEN [acc[i] EXCEPT !.total = @ + v.amount, !.count = @ + 1]
                             ELSE acc[i]],
                          Tail(vs))

calculateTotals(s) ==
  LET valid == validVouchers(getSelectedVouchers(s))
  IN IF Len(valid) = 0
     THEN [totalByCurrency |-> <<>>, overallTotal |-> NULL, singleCurrency |-> TRUE]
     ELSE LET totalByCurrency == byCurrency(<<>>, valid)
              singleCurrency == Len(totalByCurrency) = 1
          IN [totalByCurrency |-> totalByCurrency,
              overallTotal |-> IF singleCurrency THEN totalByCurrency[1].total ELSE NULL,
              singleCurrency |-> singleCurrency]

\* the state after loadVouchers: the list holds what the database holds
StoreInit ==
  /\ IdleExtract
  /\ ocr = <<>>
  /\ ai = <<>>
  /\ \E db \in SUBSET VoucherPool :
       /\ Cardinality(db) <= MaxLoaded
       /\ Cardinality(DbIds(db)) = Cardinality(db)
       /\ \E vs \in [1..Cardinality(db) -> db] :
            /\ Ids(vs) = DbIds(db)
            /\ store = [vouchers |-> vs, selectedIds |-> {}, db |-> db, queue |-> <<>>,
                        calls |-> 0, totals |-> <<>>]

StoreStep(next) ==
  /\ store # <<>>
  /\ store' = next
  /\ UNCHANGED <<extractVars, parseVars, history, ocr, ai>>

Issue(task) ==
  [store EXCEPT !.calls = @ + 1,
                !.queue = Append(@, [kind |-> task.kind, id |-> task.id,
                                     voucher |-> task.voucher, phase |-> "issued"])]

\* addVoucher up to the await: the id of a new voucher is fresh
addVoucher ==
  /\ store # <<>> /\ store.calls < MaxTasks
  /\ \E v \in VoucherPool :
       /\ v.id \notin Ids(store.vouchers) \cup DbIds(store.db)
       /\ \A i \in 1..Len(store.queue) : store.queue[i].id # v.id
       /\ StoreStep(Issue([kind |-> "add", id |-> v.id, voucher |-> v]))

\* updateVoucher up to the await: get(), find, merge
updateVoucher ==
  /\ store # <<>> /\ store.calls < MaxTasks
  /\ \E id \in Ids(store.vouchers), updates \in VoucherUpdates :
       LET voucher == store.vouchers[CHOOSE i \in 1..Len(store.vouchers) :
                                       /\ store.vouchers[i].id = id
                                       /\ \A j \in 1..(i - 1) : store.vouchers[j].id # id]
       IN StoreStep(Issue([kind |-> "update", id |-> id, voucher |-> Merge(voucher, updates)]))

\* deleteVoucher up to the await
deleteVoucher ==
  /\ store # <<>> /\ store.calls < MaxTasks
  /\ \E id \in Ids(store.vouchers) :
       StoreStep(Issue([kind |-> "delete", id |-> id, voucher |-> <<>>]))

\* clearAll up to the await
clearAll ==
  /\ store # <<>> /\ store.calls < MaxTasks
  /\ StoreStep(Issue([kind |-> "clear", id |-> "", voucher |-> <<>>]))

FirstIssued(q) ==
  CHOOSE i \in 1..Len(q) : q[i].phase = "issued" /\ \A j \in 1..(i - 1) : q[j].phase # "issued"

\* IndexedDB runs the readwrite transactions in the order they were created
DbApply ==
  /\ store # <<>>
  /\ \E i \in 1..Len(store.queue) : store.queue[i].phase = "issued"
  /\ LET i == FirstIssued(store.queue)
         t == store.queue[i]
     IN StoreStep([store EXCEPT
          !.db = IF t.kind \in {"add", "update"} THEN DbPut(@, t.voucher)
                 ELSE IF t.kind = "delete" THEN {d \in @ : d.id # t.id}
                 ELSE {},
          !.queue[i].phase = "applied"])

\* the transaction fails: the awaited promise rejects and the action ends
DbReject ==
  /\ store # <<>>
  /\ \E i \in 1..Len(store.queue) : store.queue[i].phase = "issued"
  /\ LET i == FirstIssued(store.queue)
     IN StoreStep([store EXCEPT
          !.queue = SubSeq(@, 1, i - 1) \o SubSeq(@, i + 1, Len(@))])

\* the set(...) after the await
Resume(s, t) ==
  IF t.kind = "add" THEN [s EXCEPT !.vouchers = <<t.voucher>> \o @]
  ELSE IF t.kind = "update"
  THEN [s EXCEPT !.vouchers = [i \in 1..Len(@) |-> IF @[i].id = t.id THEN t.voucher ELSE @[i]]]
  ELSE IF t.kind = "delete"
  THEN [s EXCEPT !.vouchers = SelectVouchers(@, Ids(@) \ {t.id}),
                 !.selectedIds = @ \ {t.id}]
  ELSE [s EXCEPT !.vouchers = <<>>, !.selectedIds = {}]

\* the promises resolve in the order the transactions complete
Continue ==
  /\ store # <<>> /\ store.queue # <<>>
  /\ Head(store.queue).phase = "applied"
  /\ StoreStep(Resume([store EXCEPT !.queue = Tail(@)], Head(store.queue)))

\* the card of a listed voucher is toggled
toggleSelection ==
  /\ store # <<>>
  /\ \E id \in Ids(store.vouchers) :
       StoreStep([store EXCEPT !.selectedIds = IF id \in @ THEN @ \ {id} ELSE @ \cup {id}])

selectAll ==
  /\ store # <<>>
  /\ StoreStep([store EXCEPT !.selectedIds = Ids(store.vouchers)])

clearSelection ==
  /\ store # <<>>
  /\ StoreStep([store EXCEPT !.selectedIds = {}])

\* calculateTotals is called; totals keeps what it returned and for what
CallCalculateTotals ==
  /\ store # <<>> /\ store.totals = <<>>
  /\ StoreStep([store EXCEPT !.totals = [vouchers |-> store.vouchers,
                                         selectedIds |-> store.selectedIds,
                                         out |-> calculateTotals(store)]])

StoreNext ==
  \/ addVoucher \/ updateVoucher \/ deleteVoucher \/ clearAll
  \/ DbApply \/ DbReject \/ Continue
  \/ toggleSelection \/ selectAll \/ clearSelection
StoreSpec == StoreInit /\ [][StoreNext]_vars

\* calculateTotals on its own: any list of vouchers and any selection
MaxVouchers == 3
TotalsPool ==
  VoucherPool \cup {[id |-> "c", amount |-> 5000, currency |-> "EGP"],
                    [id |-> "d", amount |-> 100, currency |-> "EUR"]}
TotalsInit ==
  /\ IdleExtract
  /\ ocr = <<>>
  /\ ai = <<>>
  /\ \E n \in 0..MaxVouchers :
       \E vs \in [1..n -> TotalsPool] :
         /\ Cardinality(Ids(vs)) = n
         /\ \E sel \in SUBSET Ids(vs) :
              store = [vouchers |-> vs, selectedIds |-> sel, db |-> {vs[i] : i \in 1..n},
                       queue |-> <<>>, calls |-> 0, totals |-> <<>>]
TotalsNext == CallCalculateTotals
TotalsSpec == TotalsInit /\ [][TotalsNext]_vars

\* ------------------------------------------------------------------------
\* Properties
\* ------------------------------------------------------------------------
InputLines == NonBlankLines(ocrText)
AnyDigit == AsciiDigitSet \cup ArabicIndicSet \cup PersianSet
NoDigitIn(text) == \A i \in 1..Len(text) : \A j \in 1..Len(text[i]) : text[i][j] \notin AnyDigit

CarriesTotalKeyword(line) == containsTotalKeywordNormalized(NormalizeLine(line))
HasTotalLine(ls) == \E i \in 1..Len(ls) : CarriesTotalKeyword(ls[i])
\* the last line that carries a total keyword
LastTotalLineOf(ls) ==
  ls[CHOOSE i \in 1..Len(ls) : /\ CarriesTotalKeyword(ls[i])
                               /\ \A j \in (i + 1)..Len(ls) : ~CarriesTotalKeyword(ls[j])]
SetMax(S) == CHOOSE x \in S : \A y \in S : y <= x
Core(r) == <<r.amount, r.currency, r.confidence>>

\* C1: the amount extractAmount returns, when it is not null, is above 0 and
\* at most 1,000,000, whichever stage returned it.
C1_AmountBounded ==
  pc = "done" /\ result.amount # NULL
    => result.amount > 0 /\ result.amount <= MaxAmount * Scale

\* C2: every call ends with one result, which is either an amount with a
\* confidence above 0 or no amount with confidence 0; until the return the
\* call is at a position from which it goes on (the guard, the pre-pass, a
\* line of the scan or its end) and has returned nothing.
C2_TwoOutcomes ==
  /\ pc = "done" => /\ (result.amount = NULL) <=> (result.confidence = 0)
                    /\ result.amount # NULL => result.confidence > 0
                    /\ stage # "none"
  /\ pc # "done" => /\ pc \in {"entry", "prepass", "scan"}
                    /\ index \in 0..Len(lines)
                    /\ pc = "scan" => lines # <<>>
                    /\ result = NoResult /\ stage = "none"
C2_Witness ==
  /\ pc = "done" /\ stage = "notFound"
  /\ result.amount = NULL /\ result.confidence = 0
  /\ InputLines # <<>>

\* C3: the confidence of every result and of every candidate lies in [0, 1].
C3_ConfidenceInRange ==
  /\ result.confidence \in 0..1000
  /\ bestCandidate # <<>> => bestCandidate[1].confidence \in 0..1000
\* a candidate whose additive score is above 1 (keyword bonus, last five
\* lines, amount above 1000) was returned
C3_Witness ==
  /\ pc = "done" /\ stage = "candidate"
  /\ bestCandidate[1].hasTotalContext
  /\ Len(lines) <= LastWindow
  /\ result.amount > 1000 * Scale
  /\ result.confidence = 1000

\* C4: a text that is empty, blank or without any digit yields no amount,
\* confidence 0 and a non-empty currency.
C4_NoDigitsNotFound ==
  pc = "done" /\ NoDigitIn(ocrText)
    => result.amount = NULL /\ result.confidence = 0 /\ result.currency # <<>>
C4_Witness ==
  /\ pc = "done" /\ NoDigitIn(ocrText)
  /\ stage = "notFound" /\ InputLines # <<>>
  /\ result.amount = NULL

\* the table row "<total keyword> | | | | N <thousands word>"
TotalRowPrefix == W_ijmali \o <<" ", "|", " ", "|", " ", "|", " ", "|", " ">>
TotalRowSuffix == <<" ">> \o W_alf
TotalRowDigits(line) ==
  SubSeq(line, Len(TotalRowPrefix) + 1, Len(line) - Len(TotalRowSuffix))
IsTotalRow(line) ==
  /\ Len(line) > Len(TotalRowPrefix) + Len(TotalRowSuffix)
  /\ SubSeq(line, 1, Len(TotalRowPrefix)) = TotalRowPrefix
  /\ SubSeq(line, Len(line) - Len(TotalRowSuffix) + 1, Len(line)) = TotalRowSuffix
  /\ \A i \in 1..Len(TotalRowDigits(line)) : TotalRowDigits(line)[i] \in AsciiDigitSet
  /\ DigitsValue(TotalRowDigits(line)) > 0

\* C5: when the last line with a total keyword is the table row
\* "<total keyword> | | | | N <thousands word>", the result is N with a
\* confidence of at least 0.95.
C5_TotalRowReturned ==
  pc = "done" /\ HasTotalLine(InputLines) /\ IsTotalRow(LastTotalLineOf(InputLines))
    => /\ result.amount = DigitsValue(TotalRowDigits(LastTotalLineOf(InputLines))) * Scale
       /\ result.confidence >= 950
C5_Witness ==
  /\ pc = "done" /\ ocrText = ScenarioDoc
  /\ result.amount = 44800 * Scale
  /\ result.confidence >= 950

\* C6: no amount is returned by the pre-pass from a line that is a table
\* header (a line with a header keyword is not in its trigger set).
C6_HeaderNeverTriggers ==
  pc = "done" /\ stage = "prepass" => ~isTableHeaderText(NormalizeLine(result.rawText))

\* the numbers within the bound on the up-to-12 lines after a line that
\* carries a total keyword
LookaheadNumbers(ls) ==
  {v \in UNION {Range(parseNumbers(ls[j])) : j \in 1..Len(ls)} :
     /\ v <= MaxAmount * Scale
     /\ \E i \in 1..Len(ls) : \E j \in (i + 1)..Min2(Len(ls), i + 12) :
          CarriesTotalKeyword(ls[i]) /\ v \in Range(parseNumbers(ls[j]))}

\* C7: the largest number within the bound on the up-to-12 lines after a
\* line that carries a total keyword is the amount returned, at a high
\* confidence.
C7_LookaheadLargest ==
  pc = "done" /\ LookaheadNumbers(InputLines) # {}
    => /\ result.amount = SetMax(LookaheadNumbers(InputLines))
       /\ result.confidence >= 950

\* C8: the stages short-circuit in order: a pre-pass result is the result
\* of the total line alone; the candidate stages answer only when the
\* pre-pass has nothing; the last-resort fallback and not-found only when
\* no line gave a candidate, not-found only when the fallback has nothing.
C8_StagePriority ==
  pc = "done" /\ stage # "empty" =>
    /\ stage = "prepass" <=> PrePassResult(InputLines) # NoResult
    /\ stage = "prepass"
         => Core(result) = Core(PrePassResult(<<LastTotalLineOf(InputLines)>>))
    /\ stage \in {"candidate", "arabicMax", "arabicSum"} => bestCandidate # <<>>
    /\ stage \in {"fallback", "notFound"}
         => /\ bestCandidate = <<>>
            /\ \A i \in 0..(Len(lines) - 1) : LineSkipped(i, lines, NormalizedLines(lines))
    /\ stage = "notFound"
         => \A i \in 1..Len(LastLines(lines)) : parseAmount(LastLines(lines)[i]) = NULL
\* a pre-pass result beside a line with another currency
C8_Witness ==
  /\ pc = "done" /\ stage = "prepass"
  /\ \E i \in 1..Len(lines) : detectCurrency(lines[i]) # result.currency

\* C9: during the scan the best candidate has total/thousands context
\* exactly when some line scanned so far gave a candidate with context.
C9_ContextOutranks ==
  pc = "scan" =>
    ((bestCandidate # <<>> /\ bestCandidate[1].hasTotalContext)
       <=> \E i \in 0..(index - 1) :
             /\ ~LineSkipped(i, lines, NormalizedLines(lines))
             /\ HasAlefOrTotal(i, lines, NormalizedLines(lines)))
\* a candidate with context replaced an earlier one without
C9_Witness ==
  /\ pc = "scan" /\ index = Len(lines)
  /\ bestCandidate # <<>> /\ bestCandidate[1].hasTotalContext
  /\ \E i \in 0..(bestCandidate[1].lineIndex - 1) :
       /\ ~LineSkipped(i, lines, NormalizedLines(lines))
       /\ ~HasAlefOrTotal(i, lines, NormalizedLines(lines))

\* the ordering of the claim: within 0.01 the larger amount, then the later
\* line; otherwise the higher confidence
Outranks(a, b) ==
  IF Abs(a.confidence - b.confidence) <= 10
  THEN a.amount > b.amount \/ (a.amount = b.amount /\ a.lineIndex > b.lineIndex)
  ELSE a.confidence > b.confidence

\* C10: at the end of the scan no candidate of the same context class
\* outranks the best candidate.
C10_BestIsTopRanked ==
  pc = "scan" /\ index = Len(lines) /\ bestCandidate # <<>> =>
    \A i \in 0..(Len(lines) - 1) :
      /\ ~LineSkipped(i, lines, NormalizedLines(lines))
      /\ HasAlefOrTotal(i, lines, NormalizedLines(lines)) = bestCandidate[1].hasTotalContext
      => ~Outranks(LineCandidate(i, lines, NormalizedLines(lines)), bestCandidate[1])

\* a line with one number and no total keyword, thousands indicator or
\* ignore keyword
PlainNumberLine(l) ==
  /\ ~CarriesTotalKeyword(l)
  /\ ~hasAlefIndicatorIn(l)
  /\ ~hasIgnoreKeywordIn(NormalizeLine(l))
  /\ Len(parseNumbers(l)) = 1
\* the numbers of a text of such lines, one per line
PlainNumbers(ls) == [i \in 1..Len(ls) |-> parseNumbers(ls[i])[1]]
LargestDominates(nums) ==
  LET dominates(M) == M <= MaxAmount * Scale /\ M * 10 >= (SeqSum(nums) - M) * 8
  IN dominates(SetMax(Range(nums)))

\* C11: for a document of lines with one number each and no total keyword,
\* thousands indicator or ignore keyword, whose largest number M (at most
\* 1,000,000) is at least 0.8 times the sum of the others, extractAmount
\* returns M with a confidence below 0.8, wherever the line of M sits.
C11_LargestReturned ==
  (/\ pc = "done"
   /\ InputLines # <<>>
   /\ \A i \in 1..Len(InputLines) : PlainNumberLine(InputLines[i])
   /\ LargestDominates(PlainNumbers(InputLines)))
    => /\ result.amount = SetMax(Range(PlainNumbers(InputLines)))
       /\ result.confidence < 800

\* the Arabic-receipt stage is entered: a best candidate without total
\* context, EGP detected in the text, at least two plausible amounts
ArabicStage ==
  /\ pc = "done"
  /\ bestCandidate # <<>>
  /\ ~bestCandidate[1].hasTotalContext
  /\ Includes(detectCurrency(JoinLines(ocrText)), <<"E", "G">>)
  /\ Len(ReasonableAmounts(lines)) >= 2

IgnoredLineAt(i) ==
  /\ hasIgnoreKeywordIn(NormalizedLines(lines)[i])
  /\ ~hasTotalNearbyContext(i - 1, NormalizedLines(lines))
  /\ ~hasAlefIndicatorIn(lines[i])

\* C13: a line with an ignore keyword and neither total context nor a
\* thousands indicator never supplies the amount extractAmount returns, at
\* any stage: the returned amount never comes with such a line as its text.
C13_IgnoredNeverSupplies ==
  (pc = "done" /\ result.amount # NULL)
    => ~\E i \in 1..Len(lines) :
          /\ result.rawText = lines[i]
          /\ \A j \in 1..Len(lines) : lines[j] = lines[i] => IgnoredLineAt(j)

\* C14: on a line with a thousands indicator word every number below 1000 is
\* multiplied by 1000 before it is returned, so an amount returned from such
\* a line ('N alf' yields 1000*N) is never below 1000.
C14_ThousandsMultiplied ==
  (/\ pc = "done"
   /\ result.amount # NULL
   /\ stage \in {"prepass", "candidate", "fallback"}
   /\ hasAlefIndicatorIn(result.rawText))
    => result.amount >= 1000 * Scale

\* C15: digit groups of different table columns are never fused into one
\* number: for the line '40 550 |22000' parseAmount gives 22000, and 40550 is
\* not among the numbers it produces.
C15_ColumnsNotFused ==
  (parsed.fn = "parseAmount" /\ parsed.arg = T_columns)
    => /\ parsed.out = 22000 * Scale
       /\ \A k \in 1..Len(parsed.numbers) : parsed.numbers[k] # 40550 * Scale

\* the text is one structural segment: no pipe, no dash, no run of three
\* spaces, no word or symbol that parseAmount removes
OneSegment(t) ==
  /\ \A i \in 1..Len(t) : t[i] \in AnyDigit \cup {" ", ".", "x"}
  /\ \A i \in 1..(Len(t) - 2) : ~(t[i] = " " /\ t[i + 1] = " " /\ t[i + 2] = " ")
\* a 1-3 digit group, one space, a 3-digit group and nothing else
TwoGroupShape(seg) ==
  \E n \in 1..3 :
    /\ Len(seg) = n + 4
    /\ \A i \in 1..n : IsDigit(seg[i])
    /\ seg[n + 1] = " "
    /\ \A i \in (n + 2)..(n + 4) : IsDigit(seg[i])
\* the numbers of a segment: its digit groups merged into one number, or each
\* digit run (with its decimal part) a number; a number is kept when above 0
SegmentNumbers(seg, merged) ==
  IF merged THEN PositiveValues(<<SelectSeq(seg, LAMBDA c : c # " ")>>)
  ELSE PositiveValues(NumberTokens(seg))
\* the segment with other characters as spaces and its ends trimmed
RawSegment(t) ==
  Trim([i \in 1..Len(t) |-> IF t[i] = "x" THEN " " ELSE normalizeChar(t[i])])

C17_FusedTokenSplit ==
  (parsed.fn = "parseAmount" /\ parsed.arg = T_fusedRow)
    => /\ \E k \in 1..Len(parsed.numbers) : parsed.numbers[k] = 380 * Scale
       /\ \E k \in 1..Len(parsed.numbers) : parsed.numbers[k] = 7600 * Scale
       /\ \A k \in 1..Len(parsed.numbers) : parsed.numbers[k] # 3807600 * Scale

DigitGlyphs == ArabicIndicSet \cup PersianSet

\* C18: normalizeDigits is idempotent (applied to its own output it returns
\* that output), is the identity on a text without Arabic-Indic or Persian
\* digit, and changes no other character: the length and every position that
\* holds no such digit are preserved.
C18_NormalizeDigits ==
  parsed.fn = "normalizeDigits"
    => /\ parsed.calls = 2 => parsed.out = parsed.arg
       /\ (\A i \in 1..Len(parsed.arg) : parsed.arg[i] \notin DigitGlyphs)
            => parsed.out = parsed.arg
       /\ Len(parsed.out) = Len(parsed.arg)
       /\ \A i \in 1..Len(parsed.arg) :
            parsed.arg[i] \notin DigitGlyphs => parsed.out[i] = parsed.arg[i]
\* a text with Persian and Arabic-Indic digits and other characters,
\* normalised twice: the first call changed it, the second did not
C18_Witness ==
  /\ parsed.fn = "normalizeDigits"
  /\ parsed.calls = 2
  /\ input = T_persian
  /\ parsed.arg # input
  /\ parsed.out = parsed.arg

\* the characters of the Arabic block (U+0600..U+06FF) that the texts use
ArabicRange ==
  {"waw", "sad", "hah", "dal", "beh", "teh", "qaf", "tehMarbuta", "alef",
   "alefHamzaAbove", "alefHamzaBelow", "lam", "jeem", "meem", "yeh", "feh",
   "seen", "ain", "reh", "noon", "heh", "TATWEEL", "ar0", "ar1", "ar2",
   "ar3", "ar4", "ar5", "ar6", "ar7", "ar8", "ar9", "fa0", "fa1", "fa2",
   "fa3", "fa4", "fa5", "fa6", "fa7", "fa8", "fa9"}
NoRuleMatches(t) == \A k \in 1..Len(currencyPatterns) : ~PatternTest(currencyPatterns[k].alts, t)

\* C19: when no currency rule matches, the default of detectCurrency depends
\* on the script: a text with Arabic-range characters gets another code than
\* a text without them gets.
C19_ScriptAwareDefault ==
  (/\ parsed.fn = "detectCurrency"
   /\ NoRuleMatches(parsed.arg)
   /\ \E i \in 1..Len(parsed.arg) : parsed.arg[i] \in ArabicRange)
    => parsed.out # detectCurrency(<<"x", " ", "5">>)

\* the codes in the order of the rules
RuleOrder ==
  << <<"E", "U", "R">>, <<"U", "S", "D">>, <<"G", "B", "P">>, <<"E", "G", "P">>,
     <<"C", "V", "E">> >>
RuleMatches(k, t) == PatternTest(currencyPatterns[k].alts, t)

\* C20: detectCurrency returns the code of the first rule, in the order EUR,
\* USD, GBP, EGP, CVE, whose pattern matches the text, and the currency of
\* every result of extractAmount is a non-empty code.
C20_FirstRuleWins ==
  /\ parsed.fn = "detectCurrency"
       => \A k \in 1..Len(RuleOrder) :
            (RuleMatches(k, parsed.arg) /\ \A j \in 1..(k - 1) : ~RuleMatches(j, parsed.arg))
              => parsed.out = RuleOrder[k]
  /\ pc = "done" => result.currency \in Range(RuleOrder)
\* a text that matches two rules gets the code of the earlier one
C20_Witness ==
  /\ parsed.fn = "detectCurrency"
  /\ \E j, k \in 1..Len(RuleOrder) :
       j < k /\ RuleMatches(j, parsed.arg) /\ RuleMatches(k, parsed.arg)
             /\ parsed.out = RuleOrder[j]

\* C21: extractAmount is a pure function of its text: two calls with the
\* same text return the same result (amount, currency, confidence, source
\* line), whatever texts were processed before or between them.
C21_SameTextSameResult ==
  /\ \A i, j \in 1..Len(history) :
       history[i].text = history[j].text => history[i].result = history[j].result
  /\ pc = "done"
       => \A i \in 1..Len(history) : history[i].text = ocrText => history[i].result = result
\* the third call has the text of the first, another text in between
C21_Witness ==
  /\ pc = "done"
  /\ Len(history) = 2
  /\ history[1].text = ocrText
  /\ history[2].text # ocrText
  /\ history[2].result.amount # history[1].result.amount
  /\ result.amount # NULL

\* C22: a performOCR call settles exactly once: resolved with the text of a
\* 'result' message, or rejected on an 'error' message, a worker error or the
\* 30 s timeout; whenever it is settled the worker is terminated, handling a
\* 'progress' message never settles it, and no later event changes the outcome.
C22_SettlesExactlyOnce ==
  /\ [](ocr.promise.state # "pending" => ocr.worker = "terminated")
  /\ [](ocr.promise.state = "resolved" => ocr.promise.value = ocr.image)
  /\ [](ocr.promise.state = "rejected"
          => ocr.promise.value \in {"error", "workerError", "timeout"})
  /\ [][ocr.promise.state # "pending" => ocr'.promise = ocr.promise]_vars
  /\ [][(ocr.channel # <<>> /\ Head(ocr.channel).type = "progress"
           /\ ocr'.channel = Tail(ocr.channel))
          => ocr'.promise = ocr.promise]_vars
  /\ [][(ocr.promise.state = "pending" /\ ocr'.promise.state = "resolved")
          => (ocr.channel # <<>> /\ Head(ocr.channel).type = "result")]_vars
  /\ <>(ocr.promise.state # "pending")
\* a result message is handled after the timeout has rejected the promise
C22_Witness ==
  /\ ocr.promise = [state |-> "rejected", value |-> "timeout"]
  /\ ocr.timer = "fired"
  /\ ocr.wpc = "done"
  /\ ocr.channel = <<>>
  /\ ocr.progress > 0

\* C23: extractAmountWithAI calls vision only with an image and OCR
\* enhancement only with non-blank text and only after vision gave nothing
\* usable; it returns the first answer whose amount is truthy and whose
\* confidence exceeds 0.1, tagged 'ai-vision' or 'ai-ocr'; without an API key,
\* or when no producer gave a usable answer, it returns amount null with
\* confidence 0, does not throw and does not run extractAmount.
C23_FirstUsableProducer ==
  (ai # <<>> /\ ai.pc = "done") =>
    LET good(r) == ~r.threw /\ r.amount \notin {NULL, 0} /\ r.confidence > 100
        nonBlank == \E i \in 1..Len(ai.ocrText) : ~IsSpace(ai.ocrText[i])
        n == Len(ai.called)
        visionGood == ai.apiKey /\ ai.imageBlob /\ good(ai.answers[1])
    IN /\ ~ai.threw
       /\ pc = "idle" /\ result = NoResult
       /\ Len(ai.answers) = n
       /\ ai.called = (IF ai.apiKey /\ ai.imageBlob THEN <<"vision">> ELSE <<>>)
                      \o (IF ai.apiKey /\ nonBlank /\ ~visionGood THEN <<"ocr">> ELSE <<>>)
       /\ IF visionGood
          THEN /\ ai.returned.method = "ai-vision"
               /\ ai.returned.amount = ai.answers[1].amount
               /\ ai.returned.currency = ai.answers[1].currency
          ELSE IF n > 0 /\ ai.called[n] = "ocr" /\ good(ai.answers[n])
          THEN /\ ai.returned.method = "ai-ocr"
               /\ ai.returned.amount = ai.answers[n].amount
               /\ ai.returned.currency = ai.answers[n].currency
          ELSE /\ ai.returned.amount = NULL
               /\ ai.returned.confidence = 0
\* vision answered with amount 0 at high confidence, OCR enhancement answered
C23_Witness ==
  /\ ai # <<>> /\ ai.pc = "done"
  /\ ai.called = <<"vision", "ocr">>
  /\ ~ai.answers[1].threw /\ ai.answers[1].amount = 0 /\ ai.answers[1].confidence = 950
  /\ ai.returned.method = "ai-ocr"
  /\ ai.returned.amount = 900000

RECURSIVE SumAmounts(_, _)
SumAmounts(vs, I) ==
  IF I = {} THEN 0
  ELSE LET i == CHOOSE k \in I : TRUE IN vs[i].amount + SumAmounts(vs, I \ {i})

\* C24: calculateTotals reports one entry per currency of the selected
\* vouchers with a non-null amount > 0, holding their sum and their count;
\* overallTotal is that sum when they share one currency and null when they
\* span several currencies or there are none; unselected vouchers and
\* vouchers without a positive amount contribute nothing.
C24_TotalsOfSelected ==
  (store # <<>> /\ store.totals # <<>>) =>
    LET vs == store.totals.vouchers
        out == store.totals.out
        counted == {i \in 1..Len(vs) : /\ vs[i].id \in store.totals.selectedIds
                                        /\ vs[i].amount # NULL
                                        /\ vs[i].amount > 0}
        of(c) == {i \in counted : vs[i].currency = c}
        currencies == {vs[i].currency : i \in counted}
        n == Len(out.totalByCurrency)
    IN /\ {out.totalByCurrency[k].currency : k \in 1..n} = currencies
       /\ n = Cardinality(currencies)
       /\ \A k \in 1..n :
            /\ out.totalByCurrency[k].total = SumAmounts(vs, of(out.totalByCurrency[k].currency))
            /\ out.totalByCurrency[k].count = Cardinality(of(out.totalByCurrency[k].currency))
       /\ out.overallTotal = IF Cardinality(currencies) = 1 THEN SumAmounts(vs, counted) ELSE NULL
\* two selected EGP vouchers are summed, the USD voucher is not selected
C24_Witness ==
  /\ store # <<>> /\ store.totals # <<>>
  /\ Len(store.totals.vouchers) = 3
  /\ store.totals.selectedIds = {"a", "b"}
  /\ \E i \in 1..3 : store.totals.vouchers[i].currency = "USD" /\ store.totals.vouchers[i].amount > 0
  /\ store.totals.out.overallTotal = 35000
  /\ store.totals.out.totalByCurrency = <<[currency |-> "EGP", total |-> 35000, count |-> 2]>>

\* C30: once every addVoucher, updateVoucher, deleteVoucher and clearAll has
\* completed, the voucher list of the store holds exactly the vouchers
\* persisted in IndexedDB, also when an updateVoucher overlapped a
\* deleteVoucher or clearAll of the same voucher, and selectedIds holds no id
\* of a voucher that is gone.
C30_ListMatchesDatabase ==
  (store # <<>> /\ store.queue = <<>>) =>
    /\ {store.vouchers[i] : i \in 1..Len(store.vouchers)} = store.db
    /\ Len(store.vouchers) = Cardinality(store.db)
    /\ store.selectedIds \subseteq Ids(store.vouchers)

\* the classes of a line for the context-quality term
ThousandsLine(i) == hasAlefIndicatorIn(lines[i + 1])
HeaderLine(i) == ~ThousandsLine(i) /\ isTableHeaderText(NormalizedLines(lines)[i + 1])
TrueTotalLine(i) ==
  /\ ~ThousandsLine(i)
  /\ ~isTableHeaderText(NormalizedLines(lines)[i + 1])
  /\ containsTotalKeywordNormalized(NormalizedLines(lines)[i + 1])
NoSignalLine(i) ==
  /\ ~ThousandsLine(i)
  /\ ~isTableHeaderText(NormalizedLines(lines)[i + 1])
  /\ ~hasTotalNearbyContext(i, NormalizedLines(lines))
\* the confidence of line i were it at the given position with the given amount
ScoreAt(i, isLastInList, amount) ==
  calculateConfidence(HasAlefOrTotal(i, lines, NormalizedLines(lines)), isLastInList, amount,
                      contextQualityOf(i, lines, NormalizedLines(lines)))

\* C25: the context-quality term is ordered thousands indicator > true total
\* keyword > header keyword > no signal, and at the same position and amount
\* a header line scores strictly above a line with no signal and strictly
\* below a line with a true total keyword.
C25_ContextQualityOrder ==
  pc = "scan" =>
    \A i, j \in 0..(Len(lines) - 1) :
      LET cq(k) == contextQualityOf(k, lines, NormalizedLines(lines))
          above(a, b) == \A last \in BOOLEAN, amount \in {50 * Scale, 500 * Scale, 5000 * Scale} :
                           ScoreAt(a, last, amount) > ScoreAt(b, last, amount)
      IN /\ (ThousandsLine(i) /\ TrueTotalLine(j)) => cq(i) > cq(j)
         /\ (TrueTotalLine(i) /\ HeaderLine(j)) => (cq(i) > cq(j) /\ above(i, j))
         /\ (HeaderLine(i) /\ NoSignalLine(j)) => (cq(i) > cq(j) /\ above(i, j))

\* C26: a line with an amount counts as having total context, and gets the
\* keyword bonus, only when it has a thousands indicator or a total keyword stands in a line
\* that is not a table header, on the line itself or within 2 lines of it; a
\* total keyword that occurs only in header lines gives the rows next to the
\* header neither.
C26_BonusNeedsTrueTotal ==
  pc = "scan" =>
    \A i \in 0..(Len(lines) - 1) :
      (~LineSkipped(i, lines, NormalizedLines(lines))
       /\ HasAlefOrTotal(i, lines, NormalizedLines(lines)))
        => \/ ThousandsLine(i)
           \/ \E j \in 0..(Len(lines) - 1) :
                /\ j >= i - 2 /\ j <= i + 2
                /\ containsTotalKeywordNormalized(NormalizedLines(lines)[j + 1])
                /\ ~isTableHeaderText(NormalizedLines(lines)[j + 1])

\* a number the specification calls plausible: positive and at most the bound
PlausibleAt(i) ==
  LET ok(amount) == amount # NULL /\ amount > 0 /\ amount <= MaxAmount * Scale
  IN ok(parseAmount(lines[i]))

\* C27: when the scan yields no candidate, the last 5 non-empty lines are
\* examined from the last backwards and the number of the first of them that
\* holds a plausible number is returned with confidence exactly 0.4 and the
\* currency of that line; when none of the last 5 lines holds one the result
\* is not-found, whatever the lines before them hold.
C27_LastResortFallback ==
  (pc = "done" /\ stage \in {"fallback", "notFound"}) =>
    LET window == {i \in 1..Len(lines) : i > Len(lines) - LastWindow /\ PlausibleAt(i)}
        pick(k) == /\ result.amount = parseAmount(lines[k])
                   /\ result.confidence = 400
                   /\ result.currency = detectCurrency(lines[k])
    IN IF window # {}
       THEN pick(CHOOSE k \in window : \A j \in window : j <= k)
       ELSE result.amount = NULL /\ stage = "notFound"
\* the same with every positive number of parseAmount counted
C27_AnyPositiveNumber ==
  (pc = "done" /\ stage \in {"fallback", "notFound"}) =>
    LET window == {i \in 1..Len(lines) : /\ i > Len(lines) - LastWindow
                                         /\ parseAmount(lines[i]) # NULL
                                         /\ parseAmount(lines[i]) > 0}
        pick(k) == /\ result.amount = parseAmount(lines[k])
                   /\ result.confidence = 400
                   /\ result.currency = detectCurrency(lines[k])
    IN IF window # {}
       THEN pick(CHOOSE k \in window : \A j \in window : j <= k)
       ELSE result.amount = NULL /\ stage = "notFound"

\* C28: a result whose amount was not confirmed by a total keyword or a
\* thousands indicator (the best candidate without total context, the largest
\* amount or the computed sum of the Arabic receipt stage, the last-resort
\* fallback) has a confidence strictly below 0.75, the value from which Scan
\* reports a successful scan.
C28_UnconfirmedBelowThreshold ==
  (/\ pc = "done"
   /\ result.amount # NULL
   /\ \/ stage \in {"arabicMax", "arabicSum", "fallback"}
      \/ stage = "candidate" /\ ~bestCandidate[1].hasTotalContext)
    => result.confidence < 750

\* C29: extractAmount(text) and extractAmount(normalizeDigits(text)) return
\* the same amount and the same confidence, from the same stage.
C29_DigitScriptIrrelevant ==
  (pc = "done" /\ Len(history) = 1 /\ ocrText = NormalizeText(history[1].text))
    => /\ result.amount = history[1].result.amount
       /\ result.confidence = history[1].result.confidence
       /\ stage = history[1].stage

====
